---- MODULE Spec2Model ----
(***************************************************************************)
(* Resilience layer of the NSIP plugin: the PostToolUse hooks              *)
(* result_cache.py, fallback_cache.py, error_notifier.py and auto_retry.py *)
(* modelled as state machines over their files (cache directory, tracker   *)
(* state file, alert files, JSONL logs).                                   *)
(*                                                                         *)
(* Python values are modelled as follows.                                  *)
(*   str      a TLA+ string (Len, \o and SubSeq work on it)                *)
(*   dict     a function whose DOMAIN is the set of keys that are present  *)
(*   list     a sequence                                                   *)
(*   datetime an integer number of minutes since the start of the run      *)
(*   Optional None is <<>>, a present value x is <<x>>                     *)
(*                                                                         *)
(* One invocation reads the clock once: the utcnow() calls of one handler  *)
(* are microseconds apart.  Storage is readable and writable unless the    *)
(* variable faults says otherwise; the ghost variable lastSet and the      *)
(* fields "had" and "before" of the outputs only record what an operation  *)
(* found, for the properties.                                              *)
(***************************************************************************)
EXTENDS Integers, Sequences, FiniteSets, TLC

VARIABLES
    now,          \* datetime.utcnow(), in minutes
    cache,        \* cache directory: fingerprint -> cache entry (one file each)
    fallback_log, \* fallback_log.jsonl
    lastSet,      \* history: (tool, argument content) -> the last payload set and when
    hookOut,      \* what the last hook or API call was given and printed/returned
    tracker,      \* error_tracker.json
    alerts,       \* the ALERT_*.txt files: file name -> what the file states
    trackOut,     \* what the last error_notifier invocation was given and returned
    retry_log,    \* retry_log.jsonl
    sleeps,       \* the time.sleep() calls made so far, in seconds
    rpc,          \* position of the running handle_failure call
    rcall,        \* arguments and locals of the running handle_failure call
    retryOut,     \* what the last handle_failure call returned
    probe,        \* input of the pure function under check
    probeOut,     \* its result
    faults,       \* what of the storage fails at the moment
    query_log,    \* query_log.jsonl
    procs         \* the hook processes under way at the same time

vars == <<now, cache, fallback_log, lastSet, hookOut, tracker, alerts, trackOut,
          retry_log, sleeps, rpc, rcall, retryOut, probe, probeOut,
          faults, query_log, procs>>

storeVars == <<cache, fallback_log, lastSet, hookOut>>
trackVars == <<tracker, alerts, trackOut>>
retryVars == <<retry_log, sleeps, rpc, rcall, retryOut>>
probeVars == <<probe, probeOut>>
sysVars == <<faults, query_log, procs>>

\* Optional values: None is the empty tuple, a value x is <<x>>
None == <<>>
Some(x) == <<x>>

----------------------------------------------------------------------------
(* Strings *)

Min(a, b) == IF a < b THEN a ELSE b

\* s[:n]
Prefix(s, n) == SubSeq(s, 1, Min(n, Len(s)))

\* p in s, at the start or anywhere else
StartsWith_Anywhere(s, p) ==
    \E i \in 0..(Len(s) - Len(p)) : SubSeq(s, i + 1, i + Len(p)) = p

\* s.startswith(p)
StartsWith(s, p) == Len(s) >= Len(p) /\ SubSeq(s, 1, Len(p)) = p

\* s.replace(p, "") for a non-empty p: the leftmost occurrence is cut out and
\* the search goes on behind it
RECURSIVE Remove(_, _)
Remove(s, p) ==
    LET hits == {i \in 1..(Len(s) - Len(p) + 1) : SubSeq(s, i, i + Len(p) - 1) = p}
    IN  IF hits = {} THEN s
        ELSE LET i == CHOOSE h \in hits : \A g \in hits : h <= g
             IN  SubSeq(s, 1, i - 1) \o Remove(SubSeq(s, i + Len(p), Len(s)), p)

UpperChars == {"A", "D", "E", "F", "I", "L", "M", "O", "R", "T", "U"}

LowerOf ==
    "A" :> "a" @@ "D" :> "d" @@ "E" :> "e" @@ "F" :> "f" @@ "I" :> "i" @@
    "L" :> "l" @@ "M" :> "m" @@ "O" :> "o" @@ "R" :> "r" @@ "T" :> "t" @@
    "U" :> "u"

\* c.lower() for one character, over the characters the model's texts use
LowerChar(c) == IF c \in UpperChars THEN LowerOf[c] ELSE c

\* k in s.lower(), for a lower-case k
InLower(k, s) ==
    \E i \in 1..(Len(s) - Len(k) + 1) :
        \A j \in 1..Len(k) :
            LowerChar(SubSeq(s, i + j - 1, i + j - 1)) = SubSeq(k, j, j)

\* ord(c) for the characters of the model's parameter names
CodePoint == "a" :> 97 @@ "b" :> 98 @@ "d" :> 100 @@ "i" :> 105

\* s < t on Python strings: lexicographic by code point
RECURSIVE StrLess(_, _)
StrLess(s, t) ==
    IF Len(t) = 0 THEN FALSE
    ELSE IF Len(s) = 0 THEN TRUE
    ELSE LET cs == SubSeq(s, 1, 1)
             ct == SubSeq(t, 1, 1)
         IN  IF cs = ct
             THEN StrLess(SubSeq(s, 2, Len(s)), SubSeq(t, 2, Len(t)))
             ELSE CodePoint[cs] < CodePoint[ct]

\* d.get(k, default)
DictGet(d, k, default) == IF k \in DOMAIN d THEN d[k] ELSE default

\* datetime.isoformat() + "Z" and datetime.fromisoformat(s.rstrip("Z"))
IsoZ(t) == <<t, "Z">>
FromIsoZ(s) == s[1]

\* A log opened with "w": the records written replace what it held
AppendLog_Rewrite(log, records) == IF records = <<>> THEN log ELSE records

\* A log whose appends are dropped without any fault
AppendLog_Nothing(log, records) == log

\* open(log_file, "a") and f.write(line) of _log_retry, _log_fallback and
\* log_query: the records are appended unless the log cannot be written, and
\* the exception is swallowed
AppendLog(log, records) == IF "log" \in faults THEN log ELSE log \o records

----------------------------------------------------------------------------
(* Tool results and the three copies of the failure test *)

\* A content item {"type": "text", "text": s}
TextItem(s) == [type |-> "text", text |-> s]

\* str(item) and str(content) of Python's dict and list
ReprItem(item) == "{'type': 'text', 'text': '" \o item.text \o "'}"

RECURSIVE ReprList(_)
ReprList(items) ==
    IF Len(items) = 0 THEN ""
    ELSE ReprItem(items[1])
             \o (IF Len(items) > 1 THEN ", " ELSE "")
             \o ReprList(Tail(items))

\* str(result): the keys the model's results carry, in the order isError,
\* error, content
Repr(result) ==
    LET parts ==
            (IF "isError" \in DOMAIN result
             THEN <<"'isError': " \o (IF result.isError THEN "True" ELSE "False")>>
             ELSE <<>>)
            \o (IF "error" \in DOMAIN result
                THEN <<"'error': '" \o result.error \o "'">> ELSE <<>>)
            \o (IF "content" \in DOMAIN result
                THEN <<"'content': [" \o ReprList(result.content) \o "]">>
                ELSE <<>>)
        join[i \in 0..Len(parts)] ==
            IF i = 0 THEN ""
            ELSE join[i - 1] \o (IF i > 1 THEN ", " ELSE "") \o parts[i]
    IN  "{" \o join[Len(parts)] \o "}"

\* "error" in text.lower() or "failed" in text.lower()
HasErrorWord(text) ==
    InLower("error", text) \/ InLower("failed", text)

\* The keyword scan stopping at the last matching item instead of the first
FirstErrorItem_Last(content) ==
    LET hits == {i \in 1..Len(content) : HasErrorWord(DictGet(content[i], "text", ""))}
    IN  IF hits = {} THEN 0 ELSE CHOOSE i \in hits : \A j \in hits : i >= j

\* The first content item the keyword scan stops at, 0 when there is none
FirstErrorItem(content) ==
    LET hits == {i \in 1..Len(content) : HasErrorWord(DictGet(content[i], "text", ""))}
    IN  IF hits = {} THEN 0 ELSE CHOOSE i \in hits : \A j \in hits : i <= j

\* AutoRetryHandler._is_failure with the error flag as its only rule
AutoRetry_is_failure_FlagOnly(result) ==
    IF DictGet(result, "isError", FALSE)
    THEN <<TRUE, "Error flag: " \o DictGet(result, "error", "Unknown error")>>
    ELSE <<FALSE, "">>

\* AutoRetryHandler._is_failure with the empty-content test moved before the
\* error flag
AutoRetry_is_failure_EmptyFirst(result) ==
    LET content == DictGet(result, "content", <<>>)
        hit == FirstErrorItem(content)
    IN  IF content = <<>> THEN <<TRUE, "Empty content returned">>
        ELSE IF DictGet(result, "isError", FALSE)
        THEN <<TRUE, "Error flag: " \o DictGet(result, "error", "Unknown error")>>
        ELSE IF hit # 0
        THEN <<TRUE, "Error in response: " \o Prefix(content[hit].text, 100)>>
        ELSE IF InLower("timeout", Repr(result))
        THEN <<TRUE, "Timeout detected">>
        ELSE <<FALSE, "">>

\* AutoRetryHandler._is_failure: (is_failure, reason)
AutoRetry_is_failure(result) ==
    LET content == DictGet(result, "content", <<>>)
        hit == FirstErrorItem(content)
    IN  IF DictGet(result, "isError", FALSE)
        THEN <<TRUE, "Error flag: " \o DictGet(result, "error", "Unknown error")>>
        ELSE IF content = <<>> THEN <<TRUE, "Empty content returned">>
        ELSE IF hit # 0
        THEN <<TRUE, "Error in response: " \o Prefix(DictGet(content[hit], "text", ""), 100)>>
        ELSE IF InLower("timeout", Repr(result))
        THEN <<TRUE, "Timeout detected">>
        ELSE <<FALSE, "">>

\* ErrorNotifier._is_failure taking every result for a failure
ErrorNotifier_is_failure_Always(result) == TRUE

\* ErrorNotifier._is_failure
ErrorNotifier_is_failure(result) ==
    LET content == DictGet(result, "content", <<>>)
    IN  IF DictGet(result, "isError", FALSE) THEN TRUE
        ELSE IF content = <<>> THEN TRUE
        ELSE FirstErrorItem(content) # 0

\* FallbackCacheHandler._is_failure
Fallback_is_failure(result) ==
    LET content == DictGet(result, "content", <<>>)
    IN  IF DictGet(result, "isError", FALSE) THEN TRUE
        ELSE IF content = <<>> THEN TRUE
        ELSE FirstErrorItem(content) # 0

----------------------------------------------------------------------------
(* Fingerprint *)

\* A JSON scalar is [str |-> s] or [int |-> n]; json.dumps of it
JsonScalar(v) ==
    IF "str" \in DOMAIN v THEN "\"" \o v.str \o "\"" ELSE ToString(v.int)

\* A dict of parameters is the sequence of its <<key, value>> items in
\* insertion order.  Insert one item into a list sorted by key.
RECURSIVE InsertByKey(_, _)
InsertByKey(item, sorted) ==
    IF Len(sorted) = 0 THEN <<item>>
    ELSE IF StrLess(item[1], sorted[1][1]) THEN <<item>> \o sorted
    ELSE <<sorted[1]>> \o InsertByKey(item, Tail(sorted))

\* sorted(parameters.items()) as json.dumps(sort_keys=True) orders them
RECURSIVE SortItems(_)
SortItems(items) ==
    IF Len(items) = 0 THEN <<>>
    ELSE InsertByKey(items[1], SortItems(Tail(items)))

RECURSIVE JsonItems(_)
JsonItems(items) ==
    IF Len(items) = 0 THEN ""
    ELSE "\"" \o items[1][1] \o "\": " \o JsonScalar(items[1][2])
             \o (IF Len(items) > 1 THEN ", " ELSE "")
             \o JsonItems(Tail(items))

\* json.dumps(parameters, sort_keys=True)
JsonDumpsSorted(parameters) == "{" \o JsonItems(SortItems(parameters)) \o "}"

\* json.dumps(parameters): insertion order kept
JsonDumpsUnsorted(parameters) == "{" \o JsonItems(parameters) \o "}"

\* hashlib.sha256(s.encode()).hexdigest(), idealised as collision-free: the
\* digest is modelled by an injective tag of its input
Sha256Hex(s) == "sha256<" \o s \o ">"

\* _get_cache_key with sort_keys dropped
ResultCache_get_cache_key_Unsorted(tool_name, parameters) ==
    Sha256Hex(tool_name \o ":" \o JsonDumpsUnsorted(parameters))

\* ResultCache._get_cache_key
ResultCache_get_cache_key(tool_name, parameters) ==
    Sha256Hex(tool_name \o ":" \o JsonDumpsSorted(parameters))

\* FallbackCacheHandler._get_cache_key with sort_keys dropped
Fallback_get_cache_key_Unsorted(tool_name, parameters) ==
    Sha256Hex(tool_name \o ":" \o JsonDumpsUnsorted(parameters))

\* FallbackCacheHandler._get_cache_key
Fallback_get_cache_key(tool_name, parameters) ==
    Sha256Hex(tool_name \o ":" \o JsonDumpsSorted(parameters))

\* ResultCache._get_cache_path and FallbackCacheHandler._get_cache_path: the
\* file name inside the cache directory
ResultCache_get_cache_path(cache_key) == cache_key \o ".json"
Fallback_get_cache_path(cache_key) == cache_key \o ".json"

----------------------------------------------------------------------------
(* Cache Store: result_cache.py *)

\* ttl_minutes
TtlMinutes == 60

\* The directory without one file (Path.unlink)
Unlink(c, path) == [p \in DOMAIN c \ {path} |-> c[p]]

\* The directory with one file written (open(path, "w") and json.dump)
WriteFile(c, path, entry) ==
    [p \in DOMAIN c \cup {path} |-> IF p = path THEN entry ELSE c[p]]

\* The expiry test of ResultCache.get with >= in place of >
Expired_AtTtl(t, cached_at) == t - cached_at >= TtlMinutes

\* The expiry test of ResultCache.get one minute late
Expired_Late(t, cached_at) == t - cached_at > TtlMinutes + 1

\* datetime.utcnow() - cached_at > self.ttl
Expired(t, cached_at) == t - cached_at > TtlMinutes

\* What a file holds that json.load cannot parse: nothing, or the first part
\* of an entry
Garbled == [garbled |-> TRUE]

\* What a reader finds where there is no file
NoFile == [absent |-> TRUE]

\* open(path) and json.load raise: the file cannot be read, or it holds no
\* JSON text
LoadRaises(entry) == "cache_read" \in faults \/ entry = Garbled

\* ResultCache.get that, finding its entry expired, removes every expired
\* entry of the directory
ResultCache_get_PurgesAll(c, t, tool_name, parameters) ==
    LET cache_path ==
            ResultCache_get_cache_path(ResultCache_get_cache_key(tool_name, parameters))
        live == {p \in DOMAIN c : ~Expired(t, FromIsoZ(c[p].cached_at))}
    IN  IF cache_path \notin DOMAIN c
        THEN [ret |-> None, cache |-> c]
        ELSE IF Expired(t, FromIsoZ(c[cache_path].cached_at))
        THEN [ret |-> None, cache |-> [p \in live |-> c[p]]]
        ELSE [ret |-> Some(c[cache_path].result), cache |-> c]

\* ResultCache.get at time t: the value returned and the directory afterwards;
\* any exception (the entry cannot be loaded, the expired file cannot be
\* removed) makes it return None
ResultCache_get(c, t, tool_name, parameters) ==
    LET cache_path ==
            ResultCache_get_cache_path(ResultCache_get_cache_key(tool_name, parameters))
    IN  IF cache_path \notin DOMAIN c
        THEN [ret |-> None, cache |-> c]
        ELSE IF LoadRaises(c[cache_path])
        THEN [ret |-> None, cache |-> c]
        ELSE LET cache_entry == c[cache_path]
                 cached_at == FromIsoZ(cache_entry.cached_at)
             IN  IF Expired(t, cached_at)
                 THEN [ret |-> None,
                       cache |-> IF "cache_write" \in faults THEN c
                                 ELSE Unlink(c, cache_path)]
                 ELSE [ret |-> Some(cache_entry.result), cache |-> c]

\* ResultCache.set writing although the directory cannot be written
ResultCache_set_Regardless(c, t, tool_name, parameters, result) ==
    WriteFile(c, ResultCache_get_cache_path(ResultCache_get_cache_key(tool_name, parameters)),
              [tool |-> tool_name, parameters |-> parameters, result |-> result,
               cached_at |-> IsoZ(t)])

\* A set that files every entry of an operation under the operation alone
ResultCache_set_ByOperation(c, t, tool_name, parameters, result) ==
    LET cache_path == ResultCache_get_cache_path(Sha256Hex(tool_name))
        cache_entry ==
            [tool |-> tool_name, parameters |-> parameters, result |-> result,
             cached_at |-> IsoZ(t)]
    IN  IF "cache_write" \in faults THEN c
        ELSE WriteFile(c, cache_path, cache_entry)

\* ResultCache.set at time t: the directory afterwards; when the file cannot
\* be opened for writing the exception is swallowed and nothing is written
ResultCache_set(c, t, tool_name, parameters, result) ==
    LET cache_path ==
            ResultCache_get_cache_path(ResultCache_get_cache_key(tool_name, parameters))
        cache_entry ==
            [tool |-> tool_name, parameters |-> parameters, result |-> result,
             cached_at |-> IsoZ(t)]
    IN  IF "cache_write" \in faults THEN c
        ELSE WriteFile(c, cache_path, cache_entry)

\* ResultCache.clear that unlinks nothing
ResultCache_clear_Nothing(c) == c

\* ResultCache.clear: every *.json file of the directory is unlinked, and an
\* unlink that fails is passed over
ResultCache_clear(c) == IF "cache_write" \in faults THEN c ELSE [p \in {} |-> None]

\* ResultCache.get_stats (the byte count of the files is not modelled)
ResultCache_get_stats(c) == [entries |-> Cardinality(DOMAIN c)]

cacheable_tools ==
    {"nsip_get_animal", "nsip_search_by_lpn", "nsip_get_lineage", "nsip_get_progeny"}

\* should_cache_tool
should_cache_tool(tool_name) == Remove(tool_name, "mcp__nsip__") \in cacheable_tools

\* The condition under which result_cache.main stores the result
ShouldStore(tool_name, tool_result) ==
    should_cache_tool(tool_name) /\ ~DictGet(tool_result, "isError", FALSE)

\* The identity a history entry is kept under: the tool name and the set of
\* (key, value) items of the arguments
Content(parameters) == {parameters[i] : i \in 1..Len(parameters)}
Ident(tool_name, parameters) == <<tool_name, Content(parameters)>>

Remember(h, t, tool_name, parameters, result) ==
    LET id == Ident(tool_name, parameters)
    IN  [i \in DOMAIN h \cup {id} |->
            IF i = id THEN [result |-> result, at |-> t] ELSE h[i]]

----------------------------------------------------------------------------
(* Fallback Supplier: fallback_cache.py *)

\* FallbackCacheHandler._load_cached_data: None when there is no file and when
\* loading it raises
Fallback_load_cached_data(c, tool_name, parameters) ==
    LET cache_path ==
            Fallback_get_cache_path(Fallback_get_cache_key(tool_name, parameters))
    IN  IF cache_path \notin DOMAIN c THEN None
        ELSE IF LoadRaises(c[cache_path]) THEN None
        ELSE Some(c[cache_path])

\* The age label that turns to hours only after the 60th minute
AgeLabel_HourLate(age_seconds) ==
    LET age_minutes == age_seconds \div 60
        age_hours == age_minutes \div 60
    IN  IF age_minutes > 60
        THEN ToString(age_hours) \o " hour(s) old"
        ELSE ToString(age_minutes) \o " minute(s) old"

\* The age label of handle_fallback for an age in seconds that is not
\* negative: int(age_seconds / 60), int(age_minutes / 60)
AgeLabel(age_seconds) ==
    LET age_minutes == age_seconds \div 60
        age_hours == age_minutes \div 60
    IN  IF age_hours > 0
        THEN ToString(age_hours) \o " hour(s) old"
        ELSE ToString(age_minutes) \o " minute(s) old"

\* The age label of handle_fallback for an entry cached at cached_time
AgeStr(t, cached_time) == AgeLabel((t - cached_time) * 60)

\* handle_fallback writing no record when it finds no entry
handle_fallback_SilentMiss(c, t, tool_name, parameters, result) ==
    IF ~Fallback_is_failure(result)
    THEN [ret |-> [fallback_used |-> FALSE, reason |-> "No failure detected"],
          log |-> <<>>]
    ELSE LET cached_data == Fallback_load_cached_data(c, tool_name, parameters)
         IN  IF cached_data = None
             THEN [ret |-> [fallback_used |-> FALSE,
                            reason |-> "No cached data available"],
                   log |-> <<>>]
             ELSE LET cached_at == cached_data[1].cached_at
                      age_str == AgeStr(t, FromIsoZ(cached_at))
                  IN  [ret |-> [fallback_used |-> TRUE,
                                cached_at |-> cached_at,
                                cache_age |-> age_str,
                                cached_result |-> cached_data[1].result,
                                context_message |->
                                    "Warning: API call failed. Using cached data from "
                                        \o ToString(cached_at[1]) \o cached_at[2]
                                        \o " (" \o age_str \o "). Data may be outdated."],
                       log |-> <<[timestamp |-> IsoZ(t), tool |-> tool_name,
                                  parameters |-> parameters,
                                  cached_at |-> cached_at,
                                  cache_age |-> age_str,
                                  status |-> "fallback_used"]>>]

\* FallbackCacheHandler.handle_fallback at time t: the metadata returned and
\* the records appended to the fallback log
handle_fallback(c, t, tool_name, parameters, result) ==
    IF ~Fallback_is_failure(result)
    THEN [ret |-> [fallback_used |-> FALSE, reason |-> "No failure detected"],
          log |-> <<>>]
    ELSE LET cached_data == Fallback_load_cached_data(c, tool_name, parameters)
         IN  IF cached_data = None
             THEN [ret |-> [fallback_used |-> FALSE,
                            reason |-> "No cached data available"],
                   log |-> <<[timestamp |-> IsoZ(t), tool |-> tool_name,
                              parameters |-> parameters,
                              status |-> "no_cache_available"]>>]
             ELSE LET cached_at == cached_data[1].cached_at
                      cached_result == cached_data[1].result
                      age_str == AgeStr(t, FromIsoZ(cached_at))
                  IN  [ret |-> [fallback_used |-> TRUE,
                                cached_at |-> cached_at,
                                cache_age |-> age_str,
                                cached_result |-> cached_result,
                                context_message |->
                                    "Warning: API call failed. Using cached data from "
                                        \o ToString(cached_at[1]) \o cached_at[2]
                                        \o " (" \o age_str \o "). Data may be outdated."],
                       log |-> <<[timestamp |-> IsoZ(t), tool |-> tool_name,
                                  parameters |-> parameters,
                                  cached_at |-> cached_at,
                                  cache_age |-> age_str,
                                  status |-> "fallback_used"]>>]

----------------------------------------------------------------------------
(* Inputs *)

NsipPrefix == "mcp__nsip__"

P_id == <<<<"id", [str |-> "X1"]>>>>
P_ab == <<<<"a", [int |-> 1]>>, <<"b", [int |-> 2]>>>>
P_ba == <<<<"b", [int |-> 2]>>, <<"a", [int |-> 1]>>>>

R_ok      == [content |-> <<TextItem("Animal X1")>>]
R_ok2     == [isError |-> FALSE, content |-> <<TextItem("Animal X2")>>]
R_empty   == [content |-> <<>>]
R_flagged == [isError |-> TRUE, error |-> "boom", content |-> <<TextItem("Animal X1")>>]
R_timeout == [content |-> <<TextItem("Request Timeout after 30s")>>]

StoreTools   == {"mcp__nsip__nsip_get_animal"}
StoreParams  == {P_id, P_ab, P_ba}
StoreResults == {R_ok, R_ok2}

HookTools   == {"mcp__nsip__nsip_get_animal", "mcp__nsip__nsip_search_animals",
                "Read"}
HookParams  == {P_id}
HookResults == {R_ok, R_empty, R_flagged, R_timeout}

\* The clock is advanced in steps of 30 and 31 minutes up to MaxStoreTime, so
\* that entries of age 59..62 minutes (around the TTL) are all seen
TickSteps == {30, 31}
MaxStoreTime == 61
MaxLog == 1

----------------------------------------------------------------------------
(* Initial state: empty cache directory, no state file, no logs *)

InitStore ==
    /\ cache = [p \in {} |-> None]
    /\ fallback_log = <<>>
    /\ lastSet = [i \in {} |-> None]
    /\ hookOut = [op |-> "none"]

InitTrack ==
    /\ tracker = [failures |-> <<>>, last_alert |-> None]
    /\ alerts = [p \in {} |-> None]
    /\ trackOut = [op |-> "none"]

InitRetry ==
    /\ retry_log = <<>>
    /\ sleeps = <<>>
    /\ rpc = "idle"
    /\ rcall = [op |-> "none"]
    /\ retryOut = [op |-> "none"]

InitProbe ==
    /\ probe = [fn |-> "none"]
    /\ probeOut = [k \in {} |-> None]

\* Storage that works, an empty query log and no process under way
InitSys ==
    /\ faults = {}
    /\ query_log = <<>>
    /\ procs = [p \in {} |-> None]

Init ==
    /\ now = 0
    /\ InitStore
    /\ InitTrack
    /\ InitRetry
    /\ InitProbe
    /\ InitSys

\* The entry stored for a call, if any
Lookup(c, tool_name, parameters) ==
    LET cache_path ==
            ResultCache_get_cache_path(ResultCache_get_cache_key(tool_name, parameters))
    IN  IF cache_path \in DOMAIN c THEN Some(c[cache_path]) ELSE None

----------------------------------------------------------------------------
(* The Cache Store's operations, called directly *)

StoreTick(d) ==
    /\ now + d <= MaxStoreTime
    /\ now' = now + d
    /\ UNCHANGED <<storeVars, trackVars, retryVars, probeVars, sysVars>>

ApiSet(tool_name, parameters, result) ==
    /\ cache' = ResultCache_set(cache, now, tool_name, parameters, result)
    /\ lastSet' = Remember(lastSet, now, tool_name, parameters, result)
    /\ hookOut' = [op |-> "set", tool |-> tool_name, parameters |-> parameters,
                   result |-> result, at |-> now]
    /\ UNCHANGED <<now, fallback_log, trackVars, retryVars, probeVars, sysVars>>

ApiGet(tool_name, parameters) ==
    LET got == ResultCache_get(cache, now, tool_name, parameters)
    IN  /\ cache' = got.cache
        /\ hookOut' = [op |-> "get", tool |-> tool_name, parameters |-> parameters,
                       at |-> now, had |-> Lookup(cache, tool_name, parameters),
                       ret |-> got.ret]
        /\ UNCHANGED <<now, fallback_log, lastSet, trackVars, retryVars, probeVars, sysVars>>

ApiClear ==
    /\ cache' = ResultCache_clear(cache)
    /\ lastSet' = [i \in {} |-> None]
    /\ hookOut' = [op |-> "clear", at |-> now, had |-> DOMAIN cache]
    /\ UNCHANGED <<now, fallback_log, trackVars, retryVars, probeVars, sysVars>>

ApiStats ==
    /\ hookOut' = [op |-> "get_stats", at |-> now, ret |-> ResultCache_get_stats(cache)]
    /\ UNCHANGED <<now, cache, fallback_log, lastSet, trackVars, retryVars, probeVars, sysVars>>

NextStore ==
    \/ \E d \in TickSteps : StoreTick(d)
    \/ \E t \in StoreTools, p \in StoreParams, r \in StoreResults : ApiSet(t, p, r)
    \/ \E t \in StoreTools, p \in StoreParams : ApiGet(t, p)
    \/ ApiClear
    \/ ApiStats

SpecStore == Init /\ [][NextStore]_vars

----------------------------------------------------------------------------
(* The hooks result_cache.py and fallback_cache.py, one invocation each *)

\* result_cache.main
ResultCacheMain(tool_name, tool_params, tool_result) ==
    /\ IF ShouldStore(tool_name, tool_result)
       THEN LET c2 == ResultCache_set(cache, now, tool_name, tool_params, tool_result)
            IN  /\ cache' = c2
                /\ lastSet' = Remember(lastSet, now, tool_name, tool_params, tool_result)
                /\ hookOut' =
                       [op |-> "result_cache", tool |-> tool_name,
                        parameters |-> tool_params, result |-> tool_result, at |-> now,
                        exit |-> 0,
                        out |-> [continue |-> TRUE,
                                 metadata |-> [cached |-> TRUE,
                                               cache_stats |-> ResultCache_get_stats(c2)]]]
       ELSE /\ UNCHANGED <<cache, lastSet>>
            /\ hookOut' =
                   [op |-> "result_cache", tool |-> tool_name,
                    parameters |-> tool_params, result |-> tool_result, at |-> now,
                    exit |-> 0,
                    out |-> [continue |-> TRUE,
                             metadata |-> [cached |-> FALSE,
                                           reason |-> "Not cacheable or error result"]]]
    /\ UNCHANGED <<now, fallback_log, trackVars, retryVars, probeVars, sysVars>>

\* fallback_cache.main
FallbackMain(tool_name, tool_params, tool_result) ==
    LET fb == handle_fallback(cache, now, tool_name, tool_params, tool_result)
        handled == StartsWith(tool_name, NsipPrefix)
        out == IF ~handled
               THEN [continue |-> TRUE,
                     metadata |-> [fallback_checked |-> FALSE,
                                   reason |-> "Not an NSIP tool"]]
               ELSE IF "context_message" \in DOMAIN fb.ret
               THEN [continue |-> TRUE,
                     metadata |-> ("fallback_checked" :> TRUE) @@ fb.ret,
                     context |-> fb.ret.context_message]
               ELSE [continue |-> TRUE,
                     metadata |-> ("fallback_checked" :> TRUE) @@ fb.ret]
        appended == IF handled THEN fb.log ELSE <<>>
    IN  /\ Len(fallback_log) + Len(appended) <= MaxLog
        /\ fallback_log' = AppendLog(fallback_log, appended)
        /\ hookOut' = [op |-> "fallback_cache", tool |-> tool_name,
                       parameters |-> tool_params, result |-> tool_result, at |-> now,
                       had |-> Lookup(cache, tool_name, tool_params),
                       logged |-> Len(fallback_log), exit |-> 0, out |-> out]
        /\ UNCHANGED <<now, cache, lastSet, trackVars, retryVars, probeVars, sysVars>>

Next ==
    \/ \E d \in TickSteps : StoreTick(d)
    \/ \E t \in HookTools, p \in HookParams, r \in HookResults : ResultCacheMain(t, p, r)
    \/ \E t \in HookTools, p \in HookParams, r \in HookResults : FallbackMain(t, p, r)

Spec == Init /\ [][Next]_vars

----------------------------------------------------------------------------
(* Properties of the Cache Store (SpecStore) *)

PathOf(tool_name, parameters) ==
    ResultCache_get_cache_path(ResultCache_get_cache_key(tool_name, parameters))

\* Age, at the time of the last call, of the entry that call found
FoundAge == hookOut.at - hookOut.had[1].cached_at[1]

\* C1: ResultCache.get never returns the payload of an entry with
\* now - created_at > ttl: for such an entry it returns None and the entry's
\* file is gone afterwards; whatever it does return is the payload of an entry
\* that was present and not older than ttl.
C1_ExpiredNeverReturned ==
    hookOut.op = "get" =>
        /\ (hookOut.had # None /\ FoundAge > TtlMinutes) =>
               /\ hookOut.ret = None
               /\ PathOf(hookOut.tool, hookOut.parameters) \notin DOMAIN cache
        /\ hookOut.ret # None =>
               /\ hookOut.had # None
               /\ FoundAge <= TtlMinutes
               /\ hookOut.ret = Some(hookOut.had[1].result)

\* A get that found an expired entry, returned None and removed the file
C1_Witness ==
    /\ hookOut.op = "get"
    /\ hookOut.had # None
    /\ FoundAge > TtlMinutes
    /\ hookOut.ret = None
    /\ PathOf(hookOut.tool, hookOut.parameters) \notin DOMAIN cache

\* C8: a get of (operation, arguments) at most ttl after the last set of that
\* operation and argument content, with no clear in between, returns exactly
\* the payload of that last set; age = ttl included, and a later set replaces
\* the payload and restarts the age.
C8_RoundTrip ==
    hookOut.op = "get" =>
        LET id == Ident(hookOut.tool, hookOut.parameters)
        IN  (id \in DOMAIN lastSet /\ hookOut.at - lastSet[id].at <= TtlMinutes) =>
                hookOut.ret = Some(lastSet[id].result)

\* A get exactly ttl after the last set that returned the payload
C8_Witness ==
    /\ hookOut.op = "get"
    /\ Ident(hookOut.tool, hookOut.parameters) \in DOMAIN lastSet
    /\ hookOut.at - lastSet[Ident(hookOut.tool, hookOut.parameters)].at = TtlMinutes
    /\ hookOut.ret = Some(lastSet[Ident(hookOut.tool, hookOut.parameters)].result)

----------------------------------------------------------------------------
(* Properties of the hooks result_cache.py and fallback_cache.py (Spec) *)

\* C2 as claimed: a fallback_cache invocation for a failed call whose only
\* cached entry (of a successful call) is older than the TTL answers fallback_used = false with the
\* reason "No cached data available".
C2_FallbackAfterExpiry ==
    (/\ hookOut.op = "fallback_cache"
     /\ StartsWith(hookOut.tool, NsipPrefix)
     /\ AutoRetry_is_failure(hookOut.result)[1]
     /\ hookOut.had # None
     /\ ~AutoRetry_is_failure(hookOut.had[1].result)[1]
     /\ FoundAge > TtlMinutes)
        => /\ hookOut.out.metadata.fallback_used = FALSE
           /\ hookOut.out.metadata.reason = "No cached data available"

\* C6 as claimed: every entry in the cache directory holds a payload the
\* Failure Classifier classifies as success.
C6_OnlySuccessCached ==
    \A p \in DOMAIN cache : ~AutoRetry_is_failure(cache[p].result)[1]

----------------------------------------------------------------------------
(* Failure Tracker: error_notifier.py *)

\* self.failure_threshold
FailureThreshold == 3
\* self.time_window, in minutes
WindowMinutes == 5
\* timedelta(minutes=10) of track_and_notify
CooldownMinutes == 10

\* _clean_old_failures dropping nothing
ErrorNotifier_clean_old_failures_None(t, failures) == failures

\* _clean_old_failures keeping the records that are exactly one window old
ErrorNotifier_clean_old_failures_Inclusive(t, failures) ==
    LET cutoff_time == t - WindowMinutes
        Recent(failure) == FromIsoZ(failure.timestamp) >= cutoff_time
    IN  SelectSeq(failures, Recent)

\* A timestamp text that datetime.fromisoformat does not accept
BadTime == <<"not-a-time">>

\* failure["timestamp"] is there and datetime.fromisoformat accepts it
TimestampParses(failure) ==
    "timestamp" \in DOMAIN failure /\ Len(failure.timestamp) = 2

\* _clean_old_failures counting the records whose timestamp it cannot parse
ErrorNotifier_clean_old_failures_KeepsUnparsed(t, failures) ==
    LET cutoff_time == t - WindowMinutes
        Recent(failure) ==
            ~TimestampParses(failure) \/ FromIsoZ(failure.timestamp) > cutoff_time
    IN  SelectSeq(failures, Recent)

\* ErrorNotifier._clean_old_failures at time t: a record whose timestamp is
\* missing or does not parse raises inside the try and is skipped
ErrorNotifier_clean_old_failures(t, failures) ==
    LET cutoff_time == t - WindowMinutes
        Recent(failure) ==
            TimestampParses(failure) /\ FromIsoZ(failure.timestamp) > cutoff_time
    IN  SelectSeq(failures, Recent)

\* _create_alert detailing the first five records of the list
ErrorNotifier_create_alert_FirstFive(t, failures) ==
    LET tools == {failures[i].tool : i \in 1..Len(failures)}
        n == Len(failures)
    IN  [path |-> "ALERT_" \o ToString(t) \o ".txt",
         alert_time |-> t,
         total |-> n,
         window |-> WindowMinutes,
         tool_failures |->
             [tl \in tools |-> Cardinality({i \in 1..n : failures[i].tool = tl})],
         details |-> SubSeq(failures, 1, Min(5, n))]

\* What ErrorNotifier._create_alert writes at time t: the file's name and the
\* figures its text states
ErrorNotifier_create_alert(t, failures) ==
    LET tools == {failures[i].tool : i \in 1..Len(failures)}
        n == Len(failures)
    IN  [path |-> "ALERT_" \o ToString(t) \o ".txt",
         alert_time |-> t,
         total |-> n,
         window |-> WindowMinutes,
         tool_failures |->
             [tl \in tools |-> Cardinality({i \in 1..n : failures[i].tool = tl})],
         details |-> SubSeq(failures, IF n > 5 THEN n - 4 ELSE 1, n)]

\* The cooldown test of track_and_notify with <= in place of <
InCooldown_Inclusive(t, last_alert) ==
    last_alert # None /\ t - FromIsoZ(last_alert[1]) <= CooldownMinutes

\* The cooldown test of track_and_notify: last_alert is set and less than ten
\* minutes old
InCooldown(t, last_alert) ==
    last_alert # None /\ t - FromIsoZ(last_alert[1]) < CooldownMinutes

\* ErrorNotifier.track_and_notify at time t on the loaded state tr: the
\* metadata returned, the state saved and the alert file written, if any
track_and_notify(tr, t, tool_name, result) ==
    IF ~ErrorNotifier_is_failure(result)
    THEN [ret |-> [error_tracked |-> FALSE, reason |-> "No failure detected"],
          tracker |-> tr, alert |-> None]
    ELSE LET failure_record ==
                 [timestamp |-> IsoZ(t), tool |-> tool_name,
                  error_reason |-> DictGet(result, "error", "Unknown error")]
             failures ==
                 ErrorNotifier_clean_old_failures(t, Append(tr.failures, failure_record))
             recent_failure_count == Len(failures)
             should_alert ==
                 recent_failure_count >= FailureThreshold /\ ~InCooldown(t, tr.last_alert)
             alert == ErrorNotifier_create_alert(t, failures)
             \* _create_alert returns "" when the alert file cannot be written
             written == "alert_write" \notin faults
             alert_path == IF ~should_alert THEN None
                           ELSE IF written THEN Some(alert.path) ELSE Some("")
         IN  [ret |-> [error_tracked |-> TRUE,
                       recent_failure_count |-> recent_failure_count,
                       alert_created |-> alert_path # None /\ alert_path # Some(""),
                       alert_path |-> alert_path,
                       threshold |-> FailureThreshold],
              tracker |-> [failures |-> failures,
                           last_alert |-> IF should_alert THEN Some(IsoZ(t))
                                          ELSE tr.last_alert],
              alert |-> IF should_alert /\ written THEN Some(alert) ELSE None]

\* The invocations tried: a success, a flagged failure of one operation, an
\* empty result of another, and a failure of a tool the hook does not handle
TrackInputs ==
    {<<"mcp__nsip__nsip_get_animal", R_ok>>,
     <<"mcp__nsip__nsip_get_animal", R_flagged>>,
     <<"mcp__nsip__nsip_search_animals", R_empty>>,
     <<"Read", R_flagged>>}

\* The clock is advanced in steps of 4 and 5 minutes up to MaxTrackTime, so
\* that ages just inside and exactly at the window and the cooldown are seen
TrackTickSteps == {4, 5}
MaxTrackTime == 14
MaxTracked == 3

TrackTick(d) ==
    /\ now + d <= MaxTrackTime
    /\ now' = now + d
    /\ UNCHANGED <<storeVars, trackVars, retryVars, probeVars, sysVars>>

\* ErrorNotifier._load_error_tracker: the dict in the state file, or the empty
\* state when there is no file, when open raises or when json.load raises
ErrorNotifier_load_error_tracker(file) ==
    IF file = NoFile \/ "tracker_read" \in faults \/ file = Garbled
    THEN [failures |-> <<>>, last_alert |-> None]
    ELSE file

\* The context message of main without the path of the alert file
AlertContext_NoPath(notify_metadata) ==
    "ALERT: " \o ToString(notify_metadata.recent_failure_count)
        \o " API failures detected. Alert file created."

\* The context message main adds when an alert was created
AlertContext(notify_metadata) ==
    "ALERT: " \o ToString(notify_metadata.recent_failure_count)
        \o " API failures detected. Alert file created at: "
        \o notify_metadata.alert_path[1]

\* error_notifier.main, with the saved list of failures held to at most
\* max_tracked records
ErrorNotifierRun(tool_name, tool_result, max_tracked) ==
    LET handled == StartsWith(tool_name, NsipPrefix)
        tn == track_and_notify(ErrorNotifier_load_error_tracker(tracker), now,
                               tool_name, tool_result)
        out == IF ~handled
               THEN [continue |-> TRUE,
                     metadata |-> [error_tracked |-> FALSE, reason |-> "Not an NSIP tool"]]
               ELSE IF DictGet(tn.ret, "alert_created", FALSE)
               THEN [continue |-> TRUE, metadata |-> tn.ret,
                     context |-> AlertContext(tn.ret)]
               ELSE [continue |-> TRUE, metadata |-> tn.ret]
    IN  /\ handled => Len(tn.tracker.failures) <= max_tracked
        /\ tracker' = IF handled /\ ErrorNotifier_is_failure(tool_result)
                      THEN tn.tracker ELSE tracker
        /\ alerts' = IF handled /\ tn.alert # None
                     THEN WriteFile(alerts, tn.alert[1].path, tn.alert[1])
                     ELSE alerts
        /\ trackOut' = [op |-> "error_notifier", tool |-> tool_name,
                        result |-> tool_result, at |-> now, before |-> tracker,
                        unreadable |-> faults \cap {"tracker_read"},
                        exit |-> 0, out |-> out]
        /\ UNCHANGED <<now, storeVars, retryVars, probeVars, sysVars>>

\* error_notifier.main
ErrorNotifierMain(tool_name, tool_result) ==
    ErrorNotifierRun(tool_name, tool_result, MaxTracked)

NextTrack ==
    \/ \E d \in TrackTickSteps : TrackTick(d)
    \/ \E in \in TrackInputs : ErrorNotifierMain(in[1], in[2])

SpecTrack == Init /\ [][NextTrack]_vars

----------------------------------------------------------------------------
(* Properties of the Failure Tracker (SpecTrack) *)

\* The last invocation was track_and_notify on a failure verdict
TrackedFailure ==
    /\ trackOut.op = "error_notifier"
    /\ StartsWith(trackOut.tool, NsipPrefix)
    /\ ErrorNotifier_is_failure(trackOut.result)

\* Minutes between the last invocation and the alert before it
SinceLastAlert == trackOut.at - trackOut.before.last_alert[1][1]

\* Records of the state the last invocation loaded that were less than one
\* window old at that invocation, plus the record it added
InWindowCount ==
    Cardinality({i \in 1..Len(trackOut.before.failures) :
                    trackOut.at - trackOut.before.failures[i].timestamp[1]
                        < WindowMinutes}) + 1

AlertFileOf(t) == "ALERT_" \o ToString(t) \o ".txt"

\* C3: on a failure verdict track_and_notify emits an Alert exactly when the
\* pruned list with the new record holds at least 3 records and last_alert is
\* unset or at least 10 minutes old; so no two Alerts are less than 10 minutes
\* apart.
C3_AlertRule ==
    /\ TrackedFailure =>
           LET due == /\ Len(tracker.failures) >= FailureThreshold
                      /\ \/ trackOut.before.last_alert = None
                         \/ SinceLastAlert >= CooldownMinutes
           IN  /\ trackOut.out.metadata.alert_created <=> due
               /\ due => /\ AlertFileOf(trackOut.at) \in DOMAIN alerts
                         /\ tracker.last_alert = Some(IsoZ(trackOut.at))
               /\ ~due => tracker.last_alert = trackOut.before.last_alert
    /\ \A p, q \in DOMAIN alerts :
           (alerts[p].alert_time < alerts[q].alert_time) =>
               alerts[q].alert_time - alerts[p].alert_time >= CooldownMinutes

\* A failure inside the cooldown, with 3 records in the list, that raised no
\* second Alert
C3_Witness ==
    /\ TrackedFailure
    /\ trackOut.before.last_alert # None
    /\ SinceLastAlert < CooldownMinutes
    /\ Len(tracker.failures) >= FailureThreshold
    /\ ~trackOut.out.metadata.alert_created
    /\ Cardinality(DOMAIN alerts) = 1

\* C4 as claimed: once an Alert has been emitted, a failure that arrives when
\* the 10 minute cooldown has elapsed produces a second Alert.
C4_AlertAfterCooldown ==
    (/\ TrackedFailure
     /\ trackOut.before.last_alert # None
     /\ SinceLastAlert >= CooldownMinutes)
        => trackOut.out.metadata.alert_created

\* C4 amended: once an Alert has been emitted, a failure that arrives when the
\* 10 minute cooldown has elapsed produces a second Alert exactly when at
\* least 3 failures, itself included, are less than 5 minutes old.
C4_AlertAfterCooldownInWindow ==
    (/\ TrackedFailure
     /\ trackOut.before.last_alert # None
     /\ SinceLastAlert >= CooldownMinutes)
        => (trackOut.out.metadata.alert_created <=> InWindowCount >= FailureThreshold)

\* A second Alert, raised by a failure after the cooldown
C4_Witness ==
    /\ TrackedFailure
    /\ trackOut.before.last_alert # None
    /\ SinceLastAlert >= CooldownMinutes
    /\ trackOut.out.metadata.alert_created
    /\ Cardinality(DOMAIN alerts) = 2

----------------------------------------------------------------------------
(* Retry Coordinator: auto_retry.py *)

\* The handler is built with another configuration than that of __init__
Reconfigured == probe.fn = "retry_config"

\* self.max_retries: 3 as set by __init__
max_retries == IF Reconfigured THEN probe.max_retries ELSE 3
\* self.backoff_delays, in seconds: [1, 2, 4] as set by __init__
backoff_delays == IF Reconfigured THEN probe.backoff_delays ELSE <<1, 2, 4>>

\* The backoff of an attempt past the schedule taken to be the schedule's last
BackoffOf_Clamped(attempt) ==
    IF attempt <= Len(backoff_delays) THEN backoff_delays[attempt]
    ELSE IF backoff_delays = <<>> THEN 0
    ELSE backoff_delays[Len(backoff_delays)]

\* The backoff of an attempt, indexed by the attempt number itself
BackoffOf_OffByOne(attempt) ==
    IF attempt < Len(backoff_delays) THEN backoff_delays[attempt + 1] ELSE 0

\* self.backoff_delays[attempt - 1] if attempt <= len(self.backoff_delays) else 0
BackoffOf(attempt) ==
    IF attempt <= Len(backoff_delays) THEN backoff_delays[attempt] ELSE 0

\* _execute_retry numbering its attempts from 0
execute_retry_FromZero(t, tool_name, parameters, original_result, attempt) ==
    [slept |-> IF attempt <= Len(backoff_delays) THEN <<BackoffOf(attempt)>> ELSE <<>>,
     log |-> [timestamp |-> IsoZ(t), tool |-> tool_name, parameters |-> parameters,
              attempt |-> attempt - 1, backoff_seconds |-> BackoffOf(attempt),
              status |-> "retrying"],
     ret |-> None]

\* _execute_retry recording every attempt as attempt 1
execute_retry_SameAttempt(t, tool_name, parameters, original_result, attempt) ==
    [slept |-> IF attempt <= Len(backoff_delays) THEN <<BackoffOf(attempt)>> ELSE <<>>,
     log |-> [timestamp |-> IsoZ(t), tool |-> tool_name, parameters |-> parameters,
              attempt |-> 1, backoff_seconds |-> BackoffOf(attempt),
              status |-> "retrying"],
     ret |-> None]

\* AutoRetryHandler._execute_retry at time t: the seconds slept, the record
\* logged and the value returned, which is always None
execute_retry(t, tool_name, parameters, original_result, attempt) ==
    [slept |-> IF attempt <= Len(backoff_delays) THEN <<BackoffOf(attempt)>> ELSE <<>>,
     log |-> [timestamp |-> IsoZ(t), tool |-> tool_name, parameters |-> parameters,
              attempt |-> attempt, backoff_seconds |-> BackoffOf(attempt),
              status |-> "retrying"],
     ret |-> None]

\* The invocations tried
RetryInputs ==
    {<<"mcp__nsip__nsip_get_animal", P_id, R_ok>>,
     <<"mcp__nsip__nsip_get_animal", P_id, R_flagged>>,
     <<"mcp__nsip__nsip_get_animal", P_ab, R_timeout>>,
     <<"mcp__nsip__nsip_search_animals", P_ba, R_empty>>,
     <<"Read", P_id, R_flagged>>}

MaxRetryCalls == 3

\* Records one failing handle_failure call appends
RecordsPerCall == max_retries + 2

\* auto_retry.main up to the first backoff wait: a tool that is not handled,
\* or a result that is no failure, ends the invocation here
RetryBegin(tool_name, parameters, result) ==
    LET handled == StartsWith(tool_name, NsipPrefix)
        verdict == AutoRetry_is_failure(result)
        input == [op |-> "auto_retry", tool |-> tool_name, parameters |-> parameters,
                  result |-> result]
    IN  /\ rpc = "idle"
        /\ Len(retry_log) + RecordsPerCall <= MaxRetryCalls * RecordsPerCall
        /\ Len(sleeps) + max_retries <= MaxRetryCalls * max_retries
        /\ IF ~handled
           THEN /\ retryOut' = input @@
                       [exit |-> 0,
                        out |-> [continue |-> TRUE,
                                 metadata |-> [retry_handled |-> FALSE,
                                               reason |-> "Not an NSIP tool"]]]
                /\ UNCHANGED <<retry_log, rpc, rcall>>
           ELSE IF ~verdict[1]
           THEN /\ retryOut' = input @@
                       [exit |-> 0,
                        out |-> [continue |-> TRUE,
                                 metadata |-> [retry_handled |-> TRUE,
                                               retry_needed |-> FALSE,
                                               reason |-> "No failure detected"]]]
                /\ UNCHANGED <<retry_log, rpc, rcall>>
           ELSE /\ retry_log' = AppendLog(retry_log,
                       <<[timestamp |-> IsoZ(now), tool |-> tool_name,
                          parameters |-> parameters, failure_reason |-> verdict[2],
                          status |-> "initial_failure"]>>)
                /\ rcall' = input @@ [attempt |-> 1, retry_count |-> 0,
                                      log_from |-> Len(retry_log),
                                      sleeps_from |-> Len(sleeps)]
                /\ rpc' = "attempt"
                /\ retryOut' = [op |-> "running"]
        /\ UNCHANGED <<now, sleeps, storeVars, trackVars, probeVars, sysVars>>

\* One pass of the loop of handle_failure: _execute_retry sleeps and logs, a
\* retry result that is present and no failure ends the call as succeeded
RetryAttempt ==
    LET ex == execute_retry(now, rcall.tool, rcall.parameters, rcall.result,
                            rcall.attempt)
        retry_count == rcall.retry_count + 1
        succeeded == ex.ret # None /\ ~AutoRetry_is_failure(ex.ret[1])[1]
    IN  /\ rpc = "attempt"
        /\ sleeps' = sleeps \o ex.slept
        /\ IF succeeded
           THEN /\ retry_log' = AppendLog(retry_log,
                       <<ex.log, [timestamp |-> IsoZ(now), tool |-> rcall.tool,
                                  attempt |-> rcall.attempt,
                                  status |-> "retry_succeeded"]>>)
                /\ retryOut' =
                       [op |-> "auto_retry", tool |-> rcall.tool,
                        parameters |-> rcall.parameters, result |-> rcall.result,
                        log_from |-> rcall.log_from, sleeps_from |-> rcall.sleeps_from,
                        exit |-> 0,
                        out |-> [continue |-> TRUE,
                                 metadata |-> [retry_handled |-> TRUE,
                                               retry_needed |-> TRUE,
                                               retry_count |-> retry_count,
                                               status |-> "succeeded"]]]
                /\ rpc' = "idle"
                /\ rcall' = [op |-> "none"]
           ELSE /\ retry_log' = AppendLog(retry_log, <<ex.log>>)
                /\ rcall' = [rcall EXCEPT !.attempt = rcall.attempt + 1,
                                          !.retry_count = retry_count]
                /\ rpc' = IF rcall.attempt + 1 <= max_retries THEN "attempt"
                          ELSE "exhausted"
                /\ UNCHANGED retryOut
        /\ UNCHANGED <<now, storeVars, trackVars, probeVars, sysVars>>

\* The end of handle_failure when the loop has run out, and main's output
RetryExhausted ==
    /\ rpc = "exhausted"
    /\ retry_log' = AppendLog(retry_log,
           <<[timestamp |-> IsoZ(now), tool |-> rcall.tool,
              max_retries |-> max_retries, status |-> "retries_exhausted"]>>)
    /\ retryOut' =
           [op |-> "auto_retry", tool |-> rcall.tool,
            parameters |-> rcall.parameters, result |-> rcall.result,
            log_from |-> rcall.log_from, sleeps_from |-> rcall.sleeps_from,
            exit |-> 0,
            out |-> [continue |-> TRUE,
                     metadata |-> [retry_handled |-> TRUE,
                                   retry_needed |-> TRUE,
                                   retry_count |-> rcall.retry_count,
                                   status |-> "exhausted"],
                     context |-> "Warning: API call failed after "
                                     \o ToString(rcall.retry_count)
                                     \o " retry attempt(s). Using original result."]]
    /\ rpc' = "idle"
    /\ rcall' = [op |-> "none"]
    /\ UNCHANGED <<now, sleeps, storeVars, trackVars, probeVars, sysVars>>

NextRetry ==
    \/ \E in \in RetryInputs : RetryBegin(in[1], in[2], in[3])
    \/ RetryAttempt
    \/ RetryExhausted

\* A started invocation runs to its end: the process is not cancelled
SpecRetry == Init /\ [][NextRetry]_vars /\ WF_vars(RetryAttempt) /\ WF_vars(RetryExhausted)

----------------------------------------------------------------------------
(* Properties of the Retry Coordinator (SpecRetry) *)

\* The last invocation was a handle_failure call on a failure verdict that
\* has returned
RetriedFailure ==
    /\ retryOut.op = "auto_retry"
    /\ StartsWith(retryOut.tool, NsipPrefix)
    /\ AutoRetry_is_failure(retryOut.result)[1]

\* The records that invocation appended after its initial-failure record,
\* and the waits it made
OwnRecords == SubSeq(retry_log, retryOut.log_from + 2, Len(retry_log))
OwnSleeps == SubSeq(sleeps, retryOut.sleeps_from + 1, Len(sleeps))

\* What every returned handle_failure call on a failure verdict has done
C7_Exhausted ==
    /\ RetriedFailure =>
           /\ retryOut.out.metadata.status = "exhausted"
           /\ retryOut.out.metadata.retry_count = 3
           /\ Len(OwnRecords) = 4
           /\ \A i \in 1..3 : /\ OwnRecords[i].status = "retrying"
                              /\ OwnRecords[i].attempt = i
           /\ <<OwnRecords[1].backoff_seconds, OwnRecords[2].backoff_seconds,
                OwnRecords[3].backoff_seconds>> = <<1, 2, 4>>
           /\ OwnSleeps = <<1, 2, 4>>
           /\ OwnRecords[4].status = "retries_exhausted"
    /\ \A i \in 1..Len(retry_log) : retry_log[i].status # "retry_succeeded"
    /\ (retryOut.op = "auto_retry" /\ "status" \in DOMAIN retryOut.out.metadata) =>
           retryOut.out.metadata.status # "succeeded"

\* C7: handle_failure on a failure verdict, with max_retries = 3 and a retry
\* step that yields no outcome, always returns, and returns status
\* "exhausted" with retry_count = 3 after exactly 3 "retrying" records with
\* attempts 1, 2, 3 and backoffs (and waits) of 1, 2, 4 seconds in that
\* order; "succeeded" is never reached.
C7_RetryExhaustion == []C7_Exhausted /\ ((rpc # "idle") ~> (rpc = "idle"))

\* A handle_failure call that has returned exhausted
C7_Witness ==
    /\ RetriedFailure
    /\ rpc = "idle"
    /\ retryOut.out.metadata.status = "exhausted"
    /\ OwnSleeps = <<1, 2, 4>>

----------------------------------------------------------------------------
(* The pure functions on their own: the three failure tests applied to one
   result, and the two fingerprint functions applied to two argument
   mappings *)

Restrict(f, keys) == [k \in keys |-> f[k]]

ErrorTexts == {"boom", "Connection timeout"}

\* A text of more than 100 characters that carries an error keyword
LongText ==
    "the lookup failed because the upstream service did not answer "
        \o "before the deadline and the request was dropped by the gateway"

Contents ==
    {<<>>,
     <<TextItem("Animal X1")>>,
     <<TextItem("Internal Server Error")>>,
     <<TextItem("Animal X1"), TextItem("Lookup FAILED")>>,
     <<TextItem("Internal Server Error"), TextItem("Lookup FAILED")>>,
     <<TextItem(LongText)>>,
     <<TextItem("Request Timeout after 30s")>>}

\* Results with any of the keys isError, error and content present
Outcomes ==
    {Restrict([isError |-> f, error |-> e, content |-> c], K) :
        f \in BOOLEAN, e \in ErrorTexts, c \in Contents,
        K \in SUBSET {"isError", "error", "content"}}

ArgKeys == {"a", "ab", "b"}
ArgValues == {[int |-> 1], [str |-> "X1"]}
MaxArgs == 2

\* Argument mappings of up to MaxArgs keys, in every insertion order
ArgMappings ==
    {p \in UNION {[1..n -> ArgKeys \X ArgValues] : n \in 0..MaxArgs} :
        \A i, j \in 1..Len(p) : i # j => p[i][1] # p[j][1]}

InitPure ==
    /\ now = 0
    /\ InitStore
    /\ InitTrack
    /\ InitRetry
    /\ InitSys
    /\ probe \in {[fn |-> "is_failure", result |-> r] : r \in Outcomes}
             \cup {[fn |-> "get_cache_key", tool |-> t, first |-> p, second |-> q] :
                      t \in {"mcp__nsip__nsip_get_animal"},
                      p \in ArgMappings, q \in ArgMappings}
    /\ probeOut = [k \in {} |-> None]

Fill(key, value) ==
    /\ key \notin DOMAIN probeOut
    /\ probeOut' = [k \in DOMAIN probeOut \cup {key} |->
                       IF k = key THEN value ELSE probeOut[k]]
    /\ UNCHANGED <<now, probe, storeVars, trackVars, retryVars, sysVars>>

\* handle_failure up to its verdict
RetryVerdict ==
    /\ probe.fn = "is_failure"
    /\ Fill("retry", AutoRetry_is_failure(probe.result))

\* track_and_notify on the empty tracker state: whether it tracked the result
TrackerVerdict ==
    /\ probe.fn = "is_failure"
    /\ Fill("tracker",
            track_and_notify([failures |-> <<>>, last_alert |-> None], now,
                             "mcp__nsip__nsip_get_animal", probe.result)
                .ret.error_tracked)

\* handle_fallback on the empty cache: whether it went on to look for a
\* cached entry
FallbackVerdict ==
    /\ probe.fn = "is_failure"
    /\ Fill("fallback",
            DictGet(handle_fallback([p \in {} |-> None], now,
                                    "mcp__nsip__nsip_get_animal", P_id, probe.result).ret,
                    "reason", "") # "No failure detected")

StoreKey ==
    /\ probe.fn = "get_cache_key"
    /\ Fill("store", <<ResultCache_get_cache_key(probe.tool, probe.first),
                       ResultCache_get_cache_key(probe.tool, probe.second)>>)

FallbackKey ==
    /\ probe.fn = "get_cache_key"
    /\ Fill("fallback_key", <<Fallback_get_cache_key(probe.tool, probe.first),
                              Fallback_get_cache_key(probe.tool, probe.second)>>)

NextPure ==
    \/ RetryVerdict
    \/ TrackerVerdict
    \/ FallbackVerdict
    \/ StoreKey
    \/ FallbackKey

SpecPure == InitPure /\ [][NextPure]_vars

----------------------------------------------------------------------------
(* Properties of the failure tests and the fingerprint (SpecPure) *)

\* C5 as claimed: the Retry Coordinator, the Failure Tracker and the Fallback
\* Supplier reach the same is_failure verdict on every outcome, so all three
\* act on it or none does.
C5_SameVerdict ==
    (probe.fn = "is_failure" /\ DOMAIN probeOut = {"retry", "tracker", "fallback"}) =>
        /\ probeOut.retry[1] = probeOut.tracker
        /\ probeOut.retry[1] = probeOut.fallback

FlagSet == probe.fn = "is_failure" /\ DictGet(probe.result, "isError", FALSE)

\* C10 as claimed: an outcome with the failure flag set is classified as a
\* failure whose reason is the attached error text, or "Unknown error" when
\* none is attached.
C10_FlagReasonIsErrorText ==
    (FlagSet /\ "retry" \in DOMAIN probeOut) =>
        probeOut.retry = <<TRUE, DictGet(probe.result, "error", "Unknown error")>>

\* C10 amended: an outcome with the failure flag set is classified as a
\* failure whatever its content, and the reason is "Error flag: " followed by
\* the attached error text, or by "Unknown error" when none is attached.
C10_FlagPrecedence ==
    (FlagSet /\ "retry" \in DOMAIN probeOut) =>
        /\ probeOut.retry[1] = TRUE
        /\ probeOut.retry[2] =
               "Error flag: " \o (IF "error" \in DOMAIN probe.result
                                  THEN probe.result.error ELSE "Unknown error")

\* A flagged outcome without error text whose content carries an error
\* keyword, classified by the flag
C10_Witness ==
    /\ FlagSet
    /\ "error" \notin DOMAIN probe.result
    /\ "content" \in DOMAIN probe.result
    /\ FirstErrorItem(probe.result.content) # 0
    /\ "retry" \in DOMAIN probeOut
    /\ probeOut.retry = <<TRUE, "Error flag: Unknown error">>

\* C9: the fingerprint depends on the operation name and the set of
\* (key, value) pairs only: two argument mappings with the same content in
\* different key orders get the same fingerprint, from the Cache Store and
\* from the Fallback Supplier.
C9_OrderIndependent ==
    (probe.fn = "get_cache_key" /\ Content(probe.first) = Content(probe.second)) =>
        /\ "store" \in DOMAIN probeOut => probeOut.store[1] = probeOut.store[2]
        /\ "fallback_key" \in DOMAIN probeOut =>
               probeOut.fallback_key[1] = probeOut.fallback_key[2]

\* Two mappings with the same two items in opposite orders, fingerprinted
C9_Witness ==
    /\ probe.fn = "get_cache_key"
    /\ Len(probe.first) = 2
    /\ probe.second = <<probe.first[2], probe.first[1]>>
    /\ DOMAIN probeOut = {"store", "fallback_key"}
    /\ probeOut.store[1] = probeOut.store[2]
    /\ probeOut.fallback_key = probeOut.store

----------------------------------------------------------------------------
(* The rule table of the Failure Classifier (SpecPure) *)

\* k in s, case-sensitively
Occurs(k, s) ==
    \E i \in 1..(Len(s) - Len(k) + 1) : SubSeq(s, i, i + Len(k) - 1) = k

\* An outcome without the failure flag that AutoRetryHandler._is_failure has
\* classified
Unflagged ==
    /\ probe.fn = "is_failure"
    /\ ~DictGet(probe.result, "isError", FALSE)
    /\ "retry" \in DOMAIN probeOut

\* The content of the probed outcome, empty when absent
ProbeContent == DictGet(probe.result, "content", <<>>)

\* The texts of the content items that carry "error" or "failed" in any case
KeywordItems ==
    {i \in 1..Len(ProbeContent) : HasErrorWord(ProbeContent[i].text)}

\* The verdict of rules 2 and 3 of the table on the probed outcome, and TRUE
\* when neither applies
EmptyAndKeywordRules ==
    /\ ProbeContent = <<>> => probeOut.retry = <<TRUE, "Empty content returned">>
    /\ (ProbeContent # <<>> /\ KeywordItems # {}) =>
           LET first == CHOOSE i \in KeywordItems : \A j \in KeywordItems : i <= j
               text == ProbeContent[first].text
           IN  probeOut.retry =
                   <<TRUE, "Error in response: "
                               \o SubSeq(text, 1, IF Len(text) < 100 THEN Len(text) ELSE 100)>>

\* C11 as claimed: without the failure flag the verdict is the first matching
\* of: empty or absent content, "Empty content returned"; an item text with
\* "error" or "failed" in any case, "Error in response: " and the first 100
\* characters of the first such text; a textual representation that contains
\* "timeout", "Timeout detected"; otherwise success.
C11_RuleTable ==
    Unflagged =>
        /\ EmptyAndKeywordRules
        /\ (ProbeContent # <<>> /\ KeywordItems = {}) =>
               IF Occurs("timeout", Repr(probe.result))
               THEN probeOut.retry = <<TRUE, "Timeout detected">>
               ELSE probeOut.retry[1] = FALSE

\* C11 amended: as claimed, with the timeout rule applied to the textual
\* representation in lower case, so that "Timeout" and "TIMEOUT" count too.
C11_RuleTableAnyCase ==
    Unflagged =>
        /\ EmptyAndKeywordRules
        /\ (ProbeContent # <<>> /\ KeywordItems = {}) =>
               IF InLower("timeout", Repr(probe.result))
               THEN probeOut.retry = <<TRUE, "Timeout detected">>
               ELSE probeOut.retry[1] = FALSE

\* An unflagged outcome without keyword items whose text spells the word as
\* "Timeout", classified as a timeout
C11_Witness ==
    /\ Unflagged
    /\ ProbeContent # <<>>
    /\ KeywordItems = {}
    /\ ~Occurs("timeout", Repr(probe.result))
    /\ Occurs("Timeout", Repr(probe.result))
    /\ probeOut.retry = <<TRUE, "Timeout detected">>

\* An unflagged outcome whose first keyword item is longer than 100
\* characters, with the reason cut to 100 characters of it
LongReasonCut ==
    /\ Unflagged
    /\ KeywordItems # {}
    /\ Len(ProbeContent[1].text) > 100
    /\ Len(probeOut.retry[2]) = Len("Error in response: ") + 100

----------------------------------------------------------------------------
(* The decision of the Fallback Supplier (Spec) *)

\* The last invocation was fallback_cache.main on a tool it handles
FallbackRan ==
    /\ hookOut.op = "fallback_cache"
    /\ StartsWith(hookOut.tool, NsipPrefix)

\* The records that invocation appended to the fallback log
FallbackAppended == SubSeq(fallback_log, hookOut.logged + 1, Len(fallback_log))

FallbackMissLogged ==
    /\ FallbackRan
    /\ Fallback_is_failure(hookOut.result)
    /\ hookOut.had = None
    /\ Len(FallbackAppended) = 1
    /\ FallbackAppended[1].status = "no_cache_available"

----------------------------------------------------------------------------
(* The sliding window of the Failure Tracker (SpecTrack) *)

\* C13: after every track_and_notify on a failure, the saved list of recent
\* failures holds no record with a timestamp before now - 5 minutes, now being
\* the time of that invocation; and it holds the record just added.
C13_WindowInvariant ==
    TrackedFailure =>
        /\ \A i \in 1..Len(tracker.failures) :
               FromIsoZ(tracker.failures[i].timestamp) >= trackOut.at - WindowMinutes
        /\ Len(tracker.failures) >= 1
        /\ tracker.failures[Len(tracker.failures)].timestamp = IsoZ(trackOut.at)

\* A failure tracked on a state that held a record more than 5 minutes old,
\* saved without that record
C13_Witness ==
    /\ TrackedFailure
    /\ \E i \in 1..Len(trackOut.before.failures) :
           trackOut.at - FromIsoZ(trackOut.before.failures[i].timestamp) > WindowMinutes
    /\ Len(tracker.failures) <= Len(trackOut.before.failures)
    /\ \A i \in 1..Len(tracker.failures) :
           FromIsoZ(tracker.failures[i].timestamp) >= trackOut.at - WindowMinutes

\* The step is an error_notifier invocation on a tool the hook handles
TrackStep ==
    /\ trackOut'.op = "error_notifier"
    /\ trackOut'.at = now
    /\ now' = now
    /\ StartsWith(trackOut'.tool, NsipPrefix)

\* What a step that tracks nothing leaves as it was
TrackNoOp ==
    /\ trackOut'.out.metadata = [error_tracked |-> FALSE, reason |-> "No failure detected"]
    /\ tracker' = tracker
    /\ alerts' = alerts

\* C14: track_and_notify on an outcome that is no failure, by its own test
\* and by the classifier's rule table, returns error_tracked = false and
\* leaves the state file (recent failures and last alert time) and the alert
\* files as they were; so a success between failures resets no count.
C14_NonFailureNoOp ==
    [][/\ (TrackStep /\ ~ErrorNotifier_is_failure(trackOut'.result)) => TrackNoOp
       /\ (TrackStep /\ ~AutoRetry_is_failure(trackOut'.result)[1]) => TrackNoOp]_vars

\* A success reported while two failures are on record, which are still there
C14_Witness ==
    /\ trackOut.op = "error_notifier"
    /\ StartsWith(trackOut.tool, NsipPrefix)
    /\ ~ErrorNotifier_is_failure(trackOut.result)
    /\ trackOut.out.metadata.error_tracked = FALSE
    /\ Len(trackOut.before.failures) = 2
    /\ tracker = trackOut.before

----------------------------------------------------------------------------
(* The five core hooks on any input record, malformed ones included *)

\* JSON null, and a JSON value that is present
Null == [null |-> TRUE]
Val(x) == [val |-> x]

\* What stdin holds when it is empty: no JSON text
NotJson == [notjson |-> TRUE]

\* What an AttributeError on None says
NoAttribute(name) == "'NoneType' object has no attribute '" \o name \o "'"

\* main without its try/except: an exception ends the process with status 1
\* and nothing printed
Absorb_Uncaught(flag, error) == [exit |-> 1, out |-> None]

\* The except clause of main: the error is reported in the decision record
\* and the process ends with status 0
Absorb(flag, error) ==
    [exit |-> 0,
     out |-> [continue |-> TRUE, metadata |-> (flag :> FALSE) @@ [error |-> error]]]

\* The first lines of main: json.loads(sys.stdin.read()), then
\* hook_data.get("tool", {}).get("name", default), .get("parameters", {}) and
\* hook_data.get("result", {}); input that is no JSON and a tool that is null
\* raise
ParseHook(hook_data, default_name) ==
    LET tool == DictGet(hook_data, "tool", Val(<<>>))
    IN  IF hook_data = NotJson
        THEN [raised |-> TRUE, error |-> "Expecting value: line 1 column 1 (char 0)"]
        ELSE IF tool = Null
        THEN [raised |-> TRUE, error |-> NoAttribute("get")]
        ELSE [raised |-> FALSE,
              tool_name |-> DictGet(tool.val, "name", Val(default_name)),
              tool_params |-> DictGet(tool.val, "parameters", <<>>),
              tool_result |-> DictGet(hook_data, "result", Val(<<>>))]

\* The error main runs into after the first lines, "" when there is none:
\* attr is the string method main calls on the tool name, and the result is
\* read (result.get) when the tool is one the hook goes on with
ErrorAfterParse(p, attr, reads_result) ==
    IF p.raised THEN p.error
    ELSE IF p.tool_name = Null THEN NoAttribute(attr)
    ELSE IF reads_result /\ p.tool_result = Null THEN NoAttribute("get")
    ELSE ""

CoreHooks == {"auto_retry", "error_notifier", "fallback_cache", "result_cache",
              "query_logger"}

\* Input records: well formed for a handled tool (a success, a failure, no
\* result), for a tool outside the handled set, and malformed (no tool, tool
\* null, name null, result null, empty input)
HookRecords ==
    {NotJson,
     [tool |-> Val([name |-> Val("mcp__nsip__nsip_get_animal"), parameters |-> P_id]),
      result |-> Val(R_ok)],
     [tool |-> Val([name |-> Val("mcp__nsip__nsip_get_animal"), parameters |-> P_id]),
      result |-> Val(R_flagged)],
     [tool |-> Val([name |-> Val("mcp__nsip__nsip_get_animal"), parameters |-> P_id])],
     [tool |-> Val([name |-> Val("Read"), parameters |-> P_id]), result |-> Val(R_ok)],
     [result |-> Val(R_ok)],
     [tool |-> Null, result |-> Val(R_ok)],
     [tool |-> Val([name |-> Null, parameters |-> P_id]), result |-> Val(R_ok)],
     [tool |-> Val([name |-> Val("mcp__nsip__nsip_get_animal"), parameters |-> P_id]),
      result |-> Null],
     [tool |-> Val([name |-> Val("Read")]), result |-> Null]}

MaxQueryLog == 2

\* One process in each behaviour: the hook that InitMain picked
HookIs(hook) == probe = [fn |-> "main", hook |-> hook]

\* result_cache.main on any input record
ResultCacheHook(hook_data) ==
    LET p == ParseHook(hook_data, "")
        error == ErrorAfterParse(p, "replace",
                                 ~p.raised /\ p.tool_name # Null
                                     /\ should_cache_tool(p.tool_name.val))
    IN  /\ HookIs("result_cache")
        /\ IF error # ""
           THEN /\ hookOut' = [op |-> "result_cache", hook_data |-> hook_data, at |-> now]
                                  @@ Absorb("cached", error)
                /\ UNCHANGED <<now, cache, lastSet, fallback_log, trackVars, retryVars,
                               probeVars, sysVars>>
           ELSE ResultCacheMain(p.tool_name.val, p.tool_params,
                                IF p.tool_result = Null THEN <<>> ELSE p.tool_result.val)

\* fallback_cache.main on any input record
FallbackHook(hook_data) ==
    LET p == ParseHook(hook_data, "")
        error == ErrorAfterParse(p, "startswith",
                                 ~p.raised /\ p.tool_name # Null
                                     /\ StartsWith(p.tool_name.val, NsipPrefix))
    IN  /\ HookIs("fallback_cache")
        /\ IF error # ""
           THEN /\ hookOut' = [op |-> "fallback_cache", hook_data |-> hook_data, at |-> now]
                                  @@ Absorb("fallback_checked", error)
                /\ UNCHANGED <<now, cache, lastSet, fallback_log, trackVars, retryVars,
                               probeVars, sysVars>>
           ELSE FallbackMain(p.tool_name.val, p.tool_params,
                             IF p.tool_result = Null THEN <<>> ELSE p.tool_result.val)

\* error_notifier.main on any input record
ErrorNotifierHook(hook_data) ==
    LET p == ParseHook(hook_data, "")
        error == ErrorAfterParse(p, "startswith",
                                 ~p.raised /\ p.tool_name # Null
                                     /\ StartsWith(p.tool_name.val, NsipPrefix))
    IN  /\ HookIs("error_notifier")
        /\ IF error # ""
           THEN /\ trackOut' = [op |-> "error_notifier", hook_data |-> hook_data, at |-> now]
                                   @@ Absorb("error_tracked", error)
                /\ UNCHANGED <<now, tracker, alerts, storeVars, retryVars, probeVars,
                               sysVars>>
           ELSE ErrorNotifierMain(p.tool_name.val,
                                  IF p.tool_result = Null THEN <<>> ELSE p.tool_result.val)

\* auto_retry.main on any input record, up to the first backoff wait
AutoRetryHook(hook_data) ==
    LET p == ParseHook(hook_data, "")
        error == ErrorAfterParse(p, "startswith",
                                 ~p.raised /\ p.tool_name # Null
                                     /\ StartsWith(p.tool_name.val, NsipPrefix))
    IN  /\ HookIs("auto_retry")
        /\ rpc = "idle"
        /\ IF error # ""
           THEN /\ retryOut' = [op |-> "auto_retry", hook_data |-> hook_data, at |-> now]
                                   @@ Absorb("retry_handled", error)
                /\ UNCHANGED <<now, retry_log, sleeps, rpc, rcall, storeVars, trackVars,
                               probeVars, sysVars>>
           ELSE RetryBegin(p.tool_name.val, p.tool_params,
                           IF p.tool_result = Null THEN <<>> ELSE p.tool_result.val)

\* log_query: the record appended to the query log (the size of the result in
\* bytes is left out, and the input records carry no duration)
log_query(t, tool_name, parameters, result, duration_ms) ==
    [timestamp |-> t, tool |-> tool_name, parameters |-> parameters,
     success |-> ~DictGet(result, "isError", FALSE),
     error |-> IF "error" \in DOMAIN result THEN Some(result.error) ELSE None,
     duration_ms |-> duration_ms]

\* query_logger.main on any input record: every tool is logged, and a name
\* that is null is logged as null
QueryLoggerHook(hook_data) ==
    LET p == ParseHook(hook_data, "unknown")
        error == IF p.raised THEN p.error
                 ELSE IF p.tool_result = Null THEN NoAttribute("get")
                 ELSE ""
    IN  /\ HookIs("query_logger")
        /\ IF error # ""
           THEN /\ hookOut' = [op |-> "query_logger", hook_data |-> hook_data, at |-> now]
                                  @@ Absorb("logged", error)
                /\ UNCHANGED query_log
           ELSE /\ Len(query_log) < MaxQueryLog
                /\ query_log' =
                       AppendLog(query_log,
                                 <<log_query(now, p.tool_name, p.tool_params,
                                             p.tool_result.val, None)>>)
                /\ hookOut' = [op |-> "query_logger", hook_data |-> hook_data, at |-> now,
                               logged |-> Len(query_log), exit |-> 0,
                               out |-> [continue |-> TRUE,
                                        metadata |-> [logged |-> TRUE,
                                                      log_file |-> "query_log.jsonl",
                                                      timestamp |-> IsoZ(now)]]]
        /\ UNCHANGED <<now, cache, lastSet, fallback_log, trackVars, retryVars, probeVars,
                       faults, procs>>

\* One hook per behaviour, on the storage of a fresh installation
InitMain ==
    /\ now = 0
    /\ InitStore
    /\ InitTrack
    /\ InitRetry
    /\ InitSys
    /\ probe \in {[fn |-> "main", hook |-> h] : h \in CoreHooks}
    /\ probeOut = [k \in {} |-> None]

NextMain ==
    \/ \E hook_data \in HookRecords : ResultCacheHook(hook_data)
    \/ \E hook_data \in HookRecords : FallbackHook(hook_data)
    \/ \E hook_data \in HookRecords : ErrorNotifierHook(hook_data)
    \/ \E hook_data \in HookRecords : AutoRetryHook(hook_data)
    \/ \E hook_data \in HookRecords : QueryLoggerHook(hook_data)
    \/ RetryAttempt
    \/ RetryExhausted

\* A started invocation runs to its end: the process is not cancelled
SpecMain ==
    InitMain /\ [][NextMain]_vars /\ WF_vars(RetryAttempt) /\ WF_vars(RetryExhausted)

\* The outputs of the hook invocations that have ended
Ended ==
    {o \in {hookOut, trackOut, retryOut} : o.op \in CoreHooks}

\* Every hook invocation that has ended has ended with status 0 and printed a
\* decision record with continue = true
C15_ExitZero ==
    \A o \in Ended : o.exit = 0 /\ o.out # None /\ o.out.continue = TRUE

\* C15: on every input record, malformed ones (no tool, tool null, name null,
\* no result, result null) and tools outside the handled set included, each
\* of auto_retry, error_notifier, fallback_cache, result_cache and
\* query_logger ends, with exit status 0 and a decision record whose continue
\* field is true.
C15_NeverHalts == []C15_ExitZero /\ ((rpc = "attempt") ~> (retryOut.op = "auto_retry"))

\* A hook that was given a null tool and reported the error in a record with
\* continue = true
C15_Witness ==
    /\ trackOut.op = "error_notifier"
    /\ "hook_data" \in DOMAIN trackOut
    /\ "tool" \in DOMAIN trackOut.hook_data
    /\ trackOut.hook_data.tool = Null
    /\ trackOut.exit = 0
    /\ trackOut.out = [continue |-> TRUE,
                       metadata |-> [error_tracked |-> FALSE,
                                     error |-> NoAttribute("get")]]

----------------------------------------------------------------------------
(* The hooks on storage that fails *)

\* What can fail, as the members of faults: writing into the cache directory
\* ("cache_write"), reading from it ("cache_read"), and appending to the logs
\* ("log")

\* The storage starts or stops failing, between two invocations
SetFaults(f) ==
    /\ rpc = "idle"
    /\ faults' = f
    /\ UNCHANGED <<now, storeVars, trackVars, retryVars, probeVars, query_log, procs>>

\* An entry file is damaged: it holds no JSON text any more
Garble(path) ==
    /\ cache' = [cache EXCEPT ![path] = Garbled]
    /\ UNCHANGED <<now, fallback_log, lastSet, hookOut, trackVars, retryVars, probeVars,
                   sysVars>>

\* One of four scenes in each behaviour: the Cache Store (result_cache.main
\* and ResultCache.get), fallback_cache.main on what result_cache.main has
\* stored, auto_retry.main, and query_logger.main
NextFault ==
    \/ /\ HookIs("result_cache")
       /\ \E f \in SUBSET {"cache_write", "cache_read"} : SetFaults(f)
    \/ /\ ~HookIs("result_cache")
       /\ \E f \in SUBSET {"log"} : SetFaults(f)
    \/ /\ HookIs("result_cache")
       /\ \E d \in TickSteps : StoreTick(d)
    \/ /\ HookIs("result_cache") \/ HookIs("fallback_cache")
       /\ \E t \in HookTools, p \in HookParams, r \in HookResults : ResultCacheMain(t, p, r)
    \/ /\ HookIs("result_cache")
       /\ \E t \in HookTools, p \in HookParams : ApiGet(t, p)
    \/ /\ HookIs("result_cache")
       /\ \E path \in DOMAIN cache : Garble(path)
    \/ /\ HookIs("fallback_cache")
       /\ \E t \in HookTools, p \in HookParams, r \in HookResults : FallbackMain(t, p, r)
    \/ \E hook_data \in HookRecords : AutoRetryHook(hook_data)
    \/ RetryAttempt
    \/ RetryExhausted
    \/ \E hook_data \in HookRecords : QueryLoggerHook(hook_data)

InitFault ==
    /\ InitMain
    /\ probe.hook # "error_notifier"

SpecFault == InitFault /\ [][NextFault]_vars

\* The step ends an invocation of the hook or operation op, reported in out
Ends(op, out) == out'.op = op /\ out' # out

\* The decision record of fallback_cache.main that the step printed is the one
\* the outcome and the entry it found call for
FallbackRecordAsDue ==
    LET md == hookOut'.out.metadata
        failure == Fallback_is_failure(hookOut'.result)
        found == /\ hookOut'.had # None
                 /\ hookOut'.had[1] # Garbled
                 /\ "cache_read" \notin faults
    IN  /\ hookOut'.out.continue = TRUE
        /\ ~failure => md = [fallback_checked |-> TRUE, fallback_used |-> FALSE,
                             reason |-> "No failure detected"]
        /\ (failure /\ ~found) =>
               md = [fallback_checked |-> TRUE, fallback_used |-> FALSE,
                     reason |-> "No cached data available"]
        /\ (failure /\ found) =>
               /\ md.fallback_used = TRUE
               /\ md.cached_result = hookOut'.had[1].result
               /\ hookOut'.out.context = md.context_message

GarbledIsMiss ==
    /\ hookOut.op = "get"
    /\ hookOut.had = Some(Garbled)
    /\ hookOut.ret = None
    /\ Lookup(cache, hookOut.tool, hookOut.parameters) = Some(Garbled)

\* A fallback served from the cache while the log could not be appended to
FallbackUnlogged ==
    /\ FallbackRan
    /\ hookOut.out.metadata.fallback_used = TRUE
    /\ fallback_log = <<>>

----------------------------------------------------------------------------
(* Hook processes appending to one log at the same time *)

MaxWriters == 4

\* The hook processes, started together as the threads of the test start them
Writers == 1..MaxWriters

\* The input record of writer p
WriterRecord(p) ==
    [tool |-> Val([name |-> Val("mcp__nsip__nsip_tool_" \o ToString(p)),
                   parameters |-> <<>>]),
     result |-> Val([isError |-> FALSE, content |-> <<>>])]

\* The line writer p appends
WriterLine(p) ==
    LET parsed == ParseHook(WriterRecord(p), "unknown")
    IN  log_query(now, parsed.tool_name, parsed.tool_params, parsed.tool_result.val, None)

\* f.write(json.dumps(log_entry)) and f.write("\n") reaching the file in two
\* write calls
LogWriteCalls_Unbuffered(line) ==
    <<[fragment |-> "json", of |-> line], [fragment |-> "newline", of |-> line]>>

\* f.write(json.dumps(log_entry) + "\n"): one string, held in the buffer of the
\* file object until the with block closes the file, and then passed to the
\* operating system in one write call
LogWriteCalls(line) == <<line>>

\* query_logger.main up to open(log_file, "a")
LogOpen(p) ==
    /\ p \notin DOMAIN procs
    /\ procs' = (p :> [pc |-> "open", pending |-> LogWriteCalls(WriterLine(p))]) @@ procs
    /\ UNCHANGED <<now, storeVars, trackVars, retryVars, probeVars, faults, query_log>>

\* One write call on the file opened for appending: the operating system puts
\* the bytes at the end the file has at that moment
LogFlush(p) ==
    /\ p \in DOMAIN procs
    /\ procs[p].pc = "open"
    /\ procs[p].pending # <<>>
    /\ query_log' = AppendLog(query_log, <<Head(procs[p].pending)>>)
    /\ procs' = [procs EXCEPT ![p].pending = Tail(procs[p].pending)]
    /\ UNCHANGED <<now, storeVars, trackVars, retryVars, probeVars, faults>>

\* The file is closed and main prints its decision record
LogClose(p) ==
    /\ p \in DOMAIN procs
    /\ procs[p].pc = "open"
    /\ procs[p].pending = <<>>
    /\ procs' = [procs EXCEPT ![p] =
                    [pc |-> "done", exit |-> 0,
                     out |-> [continue |-> TRUE,
                              metadata |-> [logged |-> TRUE,
                                            log_file |-> "query_log.jsonl",
                                            timestamp |-> IsoZ(now)]]]]
    /\ UNCHANGED <<now, storeVars, trackVars, retryVars, probeVars, faults, query_log>>

NextAppend ==
    \/ \E p \in Writers : LogOpen(p)
    \/ \E p \in Writers : LogFlush(p)
    \/ \E p \in Writers : LogClose(p)

SpecAppend == Init /\ [][NextAppend]_vars

\* What a reader of the log finds where a line is cut short or mixed with
\* another
Torn == [torn |-> TRUE]

\* The lines a reader of the log finds
RECURSIVE LinesOf(_)
LinesOf(file) ==
    IF file = <<>> THEN <<>>
    ELSE IF "fragment" \notin DOMAIN file[1]
    THEN <<file[1]>> \o LinesOf(Tail(file))
    ELSE IF /\ Len(file) >= 2
            /\ file[1].fragment = "json"
            /\ "fragment" \in DOMAIN file[2]
            /\ file[2] = [fragment |-> "newline", of |-> file[1].of]
    THEN <<file[1].of>> \o LinesOf(Tail(Tail(file)))
    ELSE <<Torn>> \o LinesOf(Tail(file))

WritersDone == {p \in DOMAIN procs : procs[p].pc = "done"}

\* C17: hook processes that each append one record to the same log, in any
\* interleaving, leave a log of complete records: every process that has
\* ended has exactly one line, once the processes that have started have all
\* ended no line is cut short, merged with or overwritten by another, and
\* when all N have ended the log holds exactly N lines.
C17_AppendsIntact ==
    LET lines == LinesOf(query_log)
    IN  /\ WritersDone = DOMAIN procs => \A i \in 1..Len(lines) : lines[i] # Torn
        /\ \A p \in WritersDone :
               Cardinality({i \in 1..Len(lines) : lines[i] = WriterLine(p)}) = 1
        /\ Len(lines) <= Cardinality(DOMAIN procs)
        /\ WritersDone = Writers => Len(lines) = MaxWriters
        /\ \A p \in WritersDone : procs[p].out.continue = TRUE

\* All writers have ended, the last one to open having written first
C17_Witness ==
    /\ WritersDone = Writers
    /\ Len(query_log) = MaxWriters
    /\ query_log[1] = WriterLine(MaxWriters)
    /\ query_log[MaxWriters] = WriterLine(1)

----------------------------------------------------------------------------
(* error_notifier processes running at the same time on one state file *)

MaxNotifiers == 3

Notifiers == 1..MaxNotifiers

\* The invocations tried, all for tools the hook handles
RaceInputs == {in \in TrackInputs : StartsWith(in[1], NsipPrefix)}

\* track_and_notify working on the state file as it is when it saves
BaseAtSave_Reread(loaded, current) == current

\* The state track_and_notify adds its record to and saves: the dict loaded at
\* the start of the call, whatever the file holds by then
BaseAtSave(loaded, current) == loaded

\* error_notifier.main up to _load_error_tracker; a result that is no failure
\* ends the invocation before the state file is read
NotifierLoad(p, tool_name, result) ==
    /\ p \notin DOMAIN procs
    /\ procs' =
           (p :> IF ErrorNotifier_is_failure(result)
                 THEN [pc |-> "loaded", tool |-> tool_name, result |-> result,
                       loaded |-> tracker,
                       saved_before |-> {q \in DOMAIN procs : procs[q].pc = "done"}]
                 ELSE [pc |-> "done", tool |-> tool_name, result |-> result,
                       saved_before |-> {}, exit |-> 0,
                       out |-> [continue |-> TRUE,
                                metadata |-> track_and_notify(tracker, now, tool_name,
                                                              result).ret]])
               @@ procs
    /\ UNCHANGED <<now, storeVars, trackVars, retryVars, probeVars, faults, query_log>>

\* The rest of track_and_notify: the record is added, the list pruned, the
\* alert written when due, the state saved, and main prints
NotifierSave(p) ==
    /\ p \in DOMAIN procs
    /\ procs[p].pc = "loaded"
    /\ LET tn == track_and_notify(BaseAtSave(procs[p].loaded, tracker), now,
                                  procs[p].tool, procs[p].result)
       IN  /\ tracker' = tn.tracker
           /\ alerts' = IF tn.alert # None
                        THEN WriteFile(alerts, tn.alert[1].path, tn.alert[1])
                        ELSE alerts
           /\ trackOut' = [op |-> "error_notifier", tool |-> procs[p].tool,
                           result |-> procs[p].result, at |-> now,
                           before |-> procs[p].loaded, exit |-> 0,
                           out |-> [continue |-> TRUE, metadata |-> tn.ret]]
           /\ procs' = [procs EXCEPT ![p] =
                           [pc |-> "done", tool |-> procs[p].tool,
                            result |-> procs[p].result,
                            saved_before |-> procs[p].saved_before, exit |-> 0,
                            out |-> [continue |-> TRUE, metadata |-> tn.ret]]]
    /\ UNCHANGED <<now, storeVars, retryVars, probeVars, faults, query_log>>

NextRace ==
    \/ \E p \in Notifiers, in \in RaceInputs : NotifierLoad(p, in[1], in[2])
    \/ \E p \in Notifiers : NotifierSave(p)

SpecRace == Init /\ [][NextRace]_vars

\* The invocations that have ended and were given a failure
FailuresReported ==
    {p \in DOMAIN procs : procs[p].pc = "done" /\ ErrorNotifier_is_failure(procs[p].result)}

\* Two invocations on failures that both loaded the state before either saved
Overlapped(p, q) ==
    /\ p \in FailuresReported
    /\ q \in FailuresReported
    /\ p # q
    /\ q \notin procs[p].saved_before
    /\ p \notin procs[q].saved_before

\* C18: when two track_and_notify invocations on failures both load the state
\* file before either saves it, both end and report error_tracked = true, and
\* the saved list of recent failures then holds fewer records than failures
\* were tracked inside the window; such an interleaving exists.
C18_LostUpdate ==
    /\ \A p \in FailuresReported : procs[p].out.metadata.error_tracked = TRUE
    /\ \A p, q \in DOMAIN procs :
           Overlapped(p, q) => Len(tracker.failures) < Cardinality(FailuresReported)

\* Two failures tracked at the same time and nothing else: both report
\* error_tracked = true with a count of 1, and the state file holds one record
C18_Witness ==
    /\ FailuresReported = {1, 2}
    /\ DOMAIN procs = {1, 2}
    /\ Overlapped(1, 2)
    /\ procs[1].out.metadata.recent_failure_count = 1
    /\ procs[2].out.metadata.recent_failure_count = 1
    /\ Len(tracker.failures) = 1

----------------------------------------------------------------------------
(* ResultCache.set step by step, with readers of the same directory *)

MaxSetters == 2

Setters == 1..MaxSetters

\* ResultCache.set, by the next process started, up to open(cache_path, "w"):
\* the entry is built, then the
\* file is created or cut to length 0; nothing of the entry is on disk before
\* json.dump's output is flushed
SetOpen(p, tool_name, parameters, result) ==
    LET cache_path ==
            ResultCache_get_cache_path(ResultCache_get_cache_key(tool_name, parameters))
    IN  /\ p = Cardinality(DOMAIN procs) + 1
        /\ procs' = (p :> [pc |-> "open", tool |-> tool_name, parameters |-> parameters,
                           result |-> result, at |-> now, cache_path |-> cache_path,
                           before |-> IF cache_path \in DOMAIN cache
                                      THEN cache[cache_path] ELSE NoFile])
                        @@ procs
        /\ cache' = WriteFile(cache, cache_path, Garbled)
        /\ UNCHANGED <<now, fallback_log, lastSet, hookOut, trackVars, retryVars,
                       probeVars, faults, query_log>>

\* json.dump and the end of the with block: the whole entry is in the file
SetDump(p) ==
    /\ p \in DOMAIN procs
    /\ procs[p].pc = "open"
    /\ cache' = ResultCache_set(cache, procs[p].at, procs[p].tool, procs[p].parameters,
                                procs[p].result)
    /\ lastSet' = Remember(lastSet, procs[p].at, procs[p].tool, procs[p].parameters,
                           procs[p].result)
    /\ procs' = [procs EXCEPT ![p].pc = "done"]
    /\ UNCHANGED <<now, fallback_log, hookOut, trackVars, retryVars, probeVars,
                   faults, query_log>>

\* The sets under way on the file of a call, each with the entry the file held
\* when it was opened and the entry being written
SetsUnderWay(tool_name, parameters) ==
    {[before |-> procs[p].before,
      entry |-> [tool |-> procs[p].tool, parameters |-> procs[p].parameters,
                 result |-> procs[p].result, cached_at |-> IsoZ(procs[p].at)]] :
         p \in {q \in DOMAIN procs :
                    /\ procs[q].pc = "open"
                    /\ procs[q].cache_path =
                           ResultCache_get_cache_path(
                               ResultCache_get_cache_key(tool_name, parameters))}}

\* ResultCache.get by another process
ReaderGet(tool_name, parameters) ==
    LET got == ResultCache_get(cache, now, tool_name, parameters)
    IN  /\ cache' = got.cache
        /\ hookOut' = [op |-> "read", by |-> "get", tool |-> tool_name,
                       parameters |-> parameters, at |-> now,
                       during |-> SetsUnderWay(tool_name, parameters),
                       ret |-> got.ret]
        /\ UNCHANGED <<now, fallback_log, lastSet, trackVars, retryVars, probeVars, sysVars>>

\* FallbackCacheHandler._load_cached_data by another process
ReaderLoad(tool_name, parameters) ==
    /\ hookOut' = [op |-> "read", by |-> "_load_cached_data", tool |-> tool_name,
                   parameters |-> parameters, at |-> now,
                   during |-> SetsUnderWay(tool_name, parameters),
                   ret |-> Fallback_load_cached_data(cache, tool_name, parameters)]
    /\ UNCHANGED <<now, cache, fallback_log, lastSet, trackVars, retryVars, probeVars,
                   sysVars>>

\* The call written and read while a set is under way
WriteParams == {P_id}

NextWrite ==
    \/ \E d \in TickSteps : StoreTick(d)
    \/ \E p \in Setters, t \in StoreTools, a \in WriteParams, r \in StoreResults :
           SetOpen(p, t, a, r)
    \/ \E p \in Setters : SetDump(p)
    \/ \E t \in StoreTools, a \in WriteParams : ReaderGet(t, a)
    \/ \E t \in StoreTools, a \in WriteParams : ReaderLoad(t, a)

SpecWrite == Init /\ [][NextWrite]_vars

\* What each reader returns for an entry it has loaded
ReadOf(by, entry) == IF by = "get" THEN Some(entry.result) ELSE Some(entry)

\* An entry, complete and not older than the TTL at time t
LiveEntry(e, t) ==
    /\ e # NoFile
    /\ e # Garbled
    /\ ~Expired(t, FromIsoZ(e.cached_at))

\* C19: a read by ResultCache.get or by _load_cached_data made while a set on
\* the same fingerprint is under way returns the complete previous entry or
\* the complete new one; it reports no miss when an unexpired entry exists
\* before and after the write.
C19_AtomicEntryWrite ==
    hookOut.op = "read" =>
        \A w \in hookOut.during :
            LiveEntry(w.before, hookOut.at) =>
                hookOut.ret \in {ReadOf(hookOut.by, w.before),
                                 ReadOf(hookOut.by, w.entry)}

----------------------------------------------------------------------------
(* One verdict handled by the three consumers, in any order *)

\* The verdicts handled: a flagged failure, an empty result, a success, and a
\* failure of a tool no consumer handles
VerdictInputs ==
    {<<"mcp__nsip__nsip_get_animal", P_id, R_flagged>>,
     <<"mcp__nsip__nsip_get_animal", P_id, R_empty>>,
     <<"mcp__nsip__nsip_get_animal", P_id, R_ok>>,
     <<"Read", P_id, R_flagged>>}

\* Earlier tool calls: a success that result_cache.py stored, failures that
\* error_notifier.py tracked
EarlierCached ==
    /\ probe.fn = "none"
    /\ cache = [p \in {} |-> None]
    /\ ResultCacheMain("mcp__nsip__nsip_get_animal", P_id, R_ok)

EarlierFailure ==
    /\ probe.fn = "none"
    /\ ErrorNotifierMain("mcp__nsip__nsip_get_animal", R_flagged)

\* A tool call ends and its PostToolUse hooks are due: the state each
\* consumer's files are in is noted, and no consumer has answered yet
VerdictArrives(tool_name, parameters, result) ==
    /\ probe.fn = "none"
    /\ probe' = [fn |-> "consumers", tool |-> tool_name, parameters |-> parameters,
                 result |-> result, cache |-> cache, tracker |-> tracker,
                 alerts |-> alerts, fallback_log |-> fallback_log,
                 retry_log |-> retry_log]
    /\ hookOut' = [op |-> "none"]
    /\ trackOut' = [op |-> "none"]
    /\ retryOut' = [op |-> "none"]
    /\ UNCHANGED <<now, cache, fallback_log, lastSet, tracker, alerts, retry_log,
                   sleeps, rpc, rcall, probeOut, sysVars>>

InScene == probe.fn = "consumers"

\* Time passes while the hooks of the call run
ConsumerTick(d) == InScene /\ TrackTick(d)

ConsumerRetry ==
    /\ InScene
    /\ \/ retryOut.op = "none" /\ RetryBegin(probe.tool, probe.parameters, probe.result)
       \/ RetryAttempt
       \/ RetryExhausted

ConsumerFallback ==
    /\ InScene
    /\ hookOut.op = "none"
    /\ FallbackMain(probe.tool, probe.parameters, probe.result)

ConsumerTracker ==
    /\ InScene
    /\ trackOut.op = "none"
    /\ ErrorNotifierMain(probe.tool, probe.result)

NextConsumers ==
    \/ EarlierCached
    \/ EarlierFailure
    \/ \E in \in VerdictInputs : VerdictArrives(in[1], in[2], in[3])
    \/ \E d \in TrackTickSteps : ConsumerTick(d)
    \/ ConsumerRetry
    \/ ConsumerFallback
    \/ ConsumerTracker

SpecConsumers == Init /\ [][NextConsumers]_vars

RetryRan == InScene /\ retryOut.op = "auto_retry"
FallbackRan20 == InScene /\ hookOut.op = "fallback_cache"
TrackerRan == InScene /\ trackOut.op = "error_notifier"

VerdictHandled == StartsWith(probe.tool, NsipPrefix)

\* The records a log has gained since the verdict arrived
Gained(log, before) == SubSeq(log, Len(before) + 1, Len(log))

\* What the Retry Coordinator answers and logs for the verdict on its own
RetryAlone ==
    IF ~VerdictHandled
    THEN /\ retryOut.out.metadata = [retry_handled |-> FALSE, reason |-> "Not an NSIP tool"]
         /\ retry_log = probe.retry_log
    ELSE IF ~AutoRetry_is_failure(probe.result)[1]
    THEN /\ retryOut.out.metadata = [retry_handled |-> TRUE, retry_needed |-> FALSE,
                                     reason |-> "No failure detected"]
         /\ retry_log = probe.retry_log
    ELSE /\ retryOut.out.metadata = [retry_handled |-> TRUE, retry_needed |-> TRUE,
                                     retry_count |-> max_retries, status |-> "exhausted"]
         /\ LET g == Gained(retry_log, probe.retry_log)
            IN  /\ Len(g) = RecordsPerCall
                /\ g[1].status = "initial_failure"
                /\ g[1].failure_reason = AutoRetry_is_failure(probe.result)[2]
                /\ \A a \in 1..max_retries :
                       /\ g[a + 1].status = "retrying"
                       /\ g[a + 1].attempt = a
                       /\ g[a + 1].backoff_seconds = BackoffOf(a)
                /\ g[RecordsPerCall].status = "retries_exhausted"
                /\ \A i \in 1..Len(g) : g[i].tool = probe.tool

\* What the Fallback Supplier answers and logs for the verdict at the time it
\* ran, computed from the cache as it was when the verdict arrived
FallbackAlone ==
    LET fb == handle_fallback(probe.cache, hookOut.at, probe.tool, probe.parameters,
                              probe.result)
    IN  IF ~VerdictHandled
        THEN /\ hookOut.out.metadata = [fallback_checked |-> FALSE,
                                        reason |-> "Not an NSIP tool"]
             /\ fallback_log = probe.fallback_log
        ELSE /\ hookOut.out.metadata = ("fallback_checked" :> TRUE) @@ fb.ret
             /\ Gained(fallback_log, probe.fallback_log) = fb.log

\* What the Failure Tracker answers, saves and raises for the verdict at the
\* time it ran, computed from its state as it was when the verdict arrived
TrackerAlone ==
    LET tn == track_and_notify(probe.tracker, trackOut.at, probe.tool, probe.result)
    IN  IF ~VerdictHandled
        THEN /\ trackOut.out.metadata = [error_tracked |-> FALSE,
                                         reason |-> "Not an NSIP tool"]
             /\ tracker = probe.tracker
             /\ alerts = probe.alerts
        ELSE /\ trackOut.out.metadata = tn.ret
             /\ tracker = tn.tracker
             /\ alerts = IF tn.alert # None
                         THEN WriteFile(probe.alerts, tn.alert[1].path, tn.alert[1])
                         ELSE probe.alerts

\* Whatever has run, the files of a consumer that has not run are as they were
\* when the verdict arrived, and the cache is in any case
ConsumerFrames ==
    InScene =>
        /\ cache = probe.cache
        /\ (retryOut.op = "none") => retry_log = probe.retry_log
        /\ (hookOut.op = "none") => fallback_log = probe.fallback_log
        /\ (trackOut.op = "none") => (tracker = probe.tracker /\ alerts = probe.alerts)

\* A step of one consumer leaves the files of the other two alone, and no
\* consumer creates, changes or deletes a cache entry
ConsumerStepFrames ==
    InScene =>
        /\ cache' = cache
        /\ (retry_log' # retry_log) => UNCHANGED <<fallback_log, tracker, alerts>>
        /\ (fallback_log' # fallback_log) => UNCHANGED <<retry_log, tracker, alerts>>
        /\ (tracker' # tracker \/ alerts' # alerts) => UNCHANGED <<retry_log, fallback_log>>

\* C20: handling one verdict, the Retry Coordinator writes only the retry log,
\* the Fallback Supplier only the fallback log and never the cache, the Failure
\* Tracker only its state file and alert files; and whichever of the other two
\* have run before it, each consumer answers and writes what it would have
\* answered and written at that moment on the state the verdict found.
C20_ConsumerIndependence ==
    /\ [](ConsumerFrames
          /\ (RetryRan => RetryAlone)
          /\ (FallbackRan20 => FallbackAlone)
          /\ (TrackerRan => TrackerAlone))
    /\ [][ConsumerStepFrames]_vars

\* A flagged failure for which a cached entry and two earlier failures exist:
\* the tracker ran first and raised an alert, the fallback ran later and served
\* the cached entry, and the retries are exhausted
C20_Witness ==
    /\ RetryRan
    /\ FallbackRan20
    /\ TrackerRan
    /\ VerdictHandled
    /\ probe.result = R_flagged
    /\ retryOut.out.metadata.status = "exhausted"
    /\ hookOut.out.metadata.fallback_used
    /\ trackOut.out.metadata.alert_created
    /\ trackOut.at < hookOut.at

\* The same with the fallback first and the tracker later
C20_OtherOrder ==
    /\ RetryRan
    /\ FallbackRan20
    /\ TrackerRan
    /\ VerdictHandled
    /\ probe.result = R_flagged
    /\ hookOut.out.metadata.fallback_used
    /\ trackOut.out.metadata.error_tracked
    /\ hookOut.at < trackOut.at

----------------------------------------------------------------------------
(* Further properties of the Retry Coordinator (SpecRetry) *)

\* An outcome that the rules of the classifier make a failure: the flag, no
\* content, an error word in some content item, or "timeout" anywhere
ClassifiesAsFailure(result) ==
    LET content == DictGet(result, "content", <<>>)
    IN  \/ DictGet(result, "isError", FALSE)
        \/ content = <<>>
        \/ \E i \in 1..Len(content) : HasErrorWord(content[i].text)
        \/ InLower("timeout", Repr(result))

\* handle_failure has returned for a tool the hook handles
HandleFailureReturned ==
    /\ retryOut.op = "auto_retry"
    /\ StartsWith(retryOut.tool, NsipPrefix)

\* What handle_failure returned, against the verdict on its outcome
RetryNeededIffFailure ==
    HandleFailureReturned =>
        LET md == retryOut.out.metadata
        IN  /\ md.retry_needed = ClassifiesAsFailure(retryOut.result)
            /\ md.retry_needed =>
                   /\ "retry_count" \in DOMAIN md
                   /\ md.status \in {"succeeded", "exhausted"}
            /\ ~md.retry_needed => md = [retry_handled |-> TRUE, retry_needed |-> FALSE,
                                         reason |-> "No failure detected"]

\* A call that begins and returns in one step is one on a non-failure, and it
\* waits for nothing and logs nothing; a call that goes on to its attempts is
\* one on a failure
RetryStepsByVerdict ==
    /\ (rpc = "idle" /\ rpc' = "idle" /\ retryOut'.op = "auto_retry"
            /\ StartsWith(retryOut'.tool, NsipPrefix)) =>
           /\ ~ClassifiesAsFailure(retryOut'.result)
           /\ UNCHANGED <<retry_log, sleeps>>
    /\ (rpc = "idle" /\ rpc' = "attempt") =>
           /\ ClassifiesAsFailure(rcall'.result)
           /\ Len(retry_log') = Len(retry_log) + 1

\* C21: handle_failure returns retry_needed = true, with retry_count and
\* status, exactly when the outcome classifies as failure; for any other
\* outcome it returns retry_needed = false, waits for no backoff and appends
\* nothing to the retry log.
C21_RetryIffFailure == []RetryNeededIffFailure /\ [][RetryStepsByVerdict]_vars

\* A call on a success that returned retry_needed = false after an earlier
\* call on a failure had filled the log: the log and the waits are those of
\* the earlier call
C21_Witness ==
    /\ HandleFailureReturned
    /\ retryOut.result = R_ok
    /\ ~retryOut.out.metadata.retry_needed
    /\ Len(retry_log) = RecordsPerCall
    /\ Len(sleeps) = max_retries


\* The positions of the retry log that hold a record of a given status
WithStatus(st) == {i \in 1..Len(retry_log) : retry_log[i].status = st}

\* The "retrying" records of attempt a in the retry log
AttemptRecords(a) == {i \in WithStatus("retrying") : retry_log[i].attempt = a}

\* The attempts the call under way has still to make
AttemptsDue == IF rpc = "attempt" THEN rcall.attempt..max_retries ELSE {}

\* Every attempt of every call begun is in the log once: as many records of
\* attempt a as calls have logged their initial failure, less the call under
\* way when it has not reached attempt a
AttemptsOnce ==
    \A a \in 1..max_retries :
        Cardinality(AttemptRecords(a)) =
            Cardinality(WithStatus("initial_failure")) - (IF a \in AttemptsDue THEN 1 ELSE 0)

\* A step appends to the retry log and changes no record in it
RetryLogGrows ==
    /\ Len(retry_log') >= Len(retry_log)
    /\ SubSeq(retry_log', 1, Len(retry_log)) = retry_log

\* C22 as stated: every record the Retry Coordinator appends to the retry log
\* has a status among retrying, succeeded and exhausted, and each attempt is
\* written exactly once.
C22_StatusDomain ==
    /\ \A i \in 1..Len(retry_log) :
           retry_log[i].status \in {"retrying", "succeeded", "exhausted"}
    /\ AttemptsOnce

\* C22 amended: every record appended to the retry log has a status among
\* initial_failure, retrying, retry_succeeded and retries_exhausted; each
\* attempt of each call is written exactly once, as a "retrying" record, and
\* no record is changed afterwards.
C22_StatusDomainAsWritten ==
    /\ [](/\ \A i \in 1..Len(retry_log) :
                 retry_log[i].status \in {"initial_failure", "retrying",
                                          "retry_succeeded", "retries_exhausted"}
          /\ AttemptsOnce)
    /\ [][RetryLogGrows]_vars

\* Two calls on failures have returned: two records of each attempt, between
\* two initial_failure and two retries_exhausted records
C22_Witness ==
    /\ rpc = "idle"
    /\ Len(retry_log) = 2 * RecordsPerCall
    /\ \A a \in 1..max_retries : Cardinality(AttemptRecords(a)) = 2
    /\ Cardinality(WithStatus("initial_failure")) = 2
    /\ Cardinality(WithStatus("retries_exhausted")) = 2

----------------------------------------------------------------------------
(* The Failure Tracker with lists long enough for an Alert of more than five
   records *)

MaxAlertTracked == 6
MaxAlertTime == 12

\* The clock is advanced in steps of 3 minutes: failures 3 minutes apart are
\* in one window, failures 6 minutes apart are not, and an Alert at minute 0
\* is out of its cooldown at minute 12
AlertTickStep == 3

\* Failures of two operations
AlertInputs ==
    {<<"mcp__nsip__nsip_get_animal", R_flagged>>,
     <<"mcp__nsip__nsip_search_animals", R_empty>>}

AlertTick ==
    /\ now + AlertTickStep <= MaxAlertTime
    /\ now' = now + AlertTickStep
    /\ UNCHANGED <<storeVars, trackVars, retryVars, probeVars, sysVars>>

NextAlert ==
    \/ AlertTick
    \/ \E in \in AlertInputs : ErrorNotifierRun(in[1], in[2], MaxAlertTracked)

SpecAlert == Init /\ [][NextAlert]_vars

\* The last invocation emitted an Alert
AlertEmitted == TrackedFailure /\ trackOut.out.metadata.alert_created

\* The Alert the last invocation wrote
EmittedAlert == alerts[trackOut.out.metadata.alert_path[1]]

\* The records of one operation in a list of failures
RecordsOf(failures, tool) == {i \in 1..Len(failures) : failures[i].tool = tool}

RECURSIVE SumOver(_, _)
\* The sum of a function's values over a set of its arguments
SumOver(f, S) ==
    IF S = {} THEN 0
    ELSE LET x == CHOOSE y \in S : TRUE IN f[x] + SumOver(f, S \ {x})

\* C23: every emitted Alert states a total equal to the length of the list of
\* recent failures at emission and the window length, gives for each
\* operation in that list, and for no other, the number of its records (so
\* that the counts add up to the total), and details the min(5, total) most
\* recent records in the order of the list.
C23_AlertContent ==
    AlertEmitted =>
        LET a == EmittedAlert
            n == Len(tracker.failures)
            k == Min(5, n)
        IN  /\ a.total = n
            /\ a.window = WindowMinutes
            /\ DOMAIN a.tool_failures = {tracker.failures[i].tool : i \in 1..n}
            /\ \A tl \in DOMAIN a.tool_failures :
                   a.tool_failures[tl] = Cardinality(RecordsOf(tracker.failures, tl))
            /\ SumOver(a.tool_failures, DOMAIN a.tool_failures) = n
            /\ Len(a.details) = k
            /\ \A i \in 1..k : a.details[i] = tracker.failures[n - k + i]
            /\ \A i \in 1..(k - 1) :
                   FromIsoZ(a.details[i].timestamp) <= FromIsoZ(a.details[i + 1].timestamp)

\* An Alert on six recent failures of two operations: it details the last
\* five and leaves the oldest out
C23_Witness ==
    /\ AlertEmitted
    /\ Len(tracker.failures) = 6
    /\ Cardinality(DOMAIN EmittedAlert.tool_failures) = 2
    /\ Len(EmittedAlert.details) = 5
    /\ EmittedAlert.details[1] = tracker.failures[2]

\* Three failures of one operation inside two minutes: the Alert lists that
\* operation with a count of 3
ThreeOfOneOperation ==
    /\ AlertEmitted
    /\ EmittedAlert.total = 3
    /\ EmittedAlert.tool_failures = [tl \in {"mcp__nsip__nsip_search_animals"} |-> 3]

----------------------------------------------------------------------------
(* The age label of the Fallback Supplier, for ages given in seconds *)

MaxAgeSeconds == 7260

InitAge ==
    /\ now = 0
    /\ InitStore
    /\ InitTrack
    /\ InitRetry
    /\ InitSys
    /\ probe \in {[fn |-> "cache_age", age_seconds |-> s] : s \in 0..MaxAgeSeconds}
    /\ probeOut = [k \in {} |-> None]

\* handle_fallback from cached_time to age_str
CacheAge ==
    /\ probe.fn = "cache_age"
    /\ Fill("age_str", AgeLabel(probe.age_seconds))

NextAge == CacheAge

SpecAge == InitAge /\ [][NextAge]_vars

\* C24: for an entry whose age is m whole minutes, m = floor(age_seconds / 60)
\* and m >= 0, the age description is "<m> minute(s) old" when m < 60 and
\* "<floor(m / 60)> hour(s) old" when m >= 60; 5 minutes give "5 minute(s)
\* old" and 90 minutes "1 hour(s) old".
C24_AgeLabel ==
    "age_str" \in DOMAIN probeOut =>
        LET m == probe.age_seconds \div 60
        IN  /\ m < 60 => probeOut.age_str = ToString(m) \o " minute(s) old"
            /\ m >= 60 => probeOut.age_str = ToString(m \div 60) \o " hour(s) old"
            /\ m = 5 => probeOut.age_str = "5 minute(s) old"
            /\ m = 90 => probeOut.age_str = "1 hour(s) old"

\* An entry of exactly 60 minutes, labelled in hours
C24_Witness ==
    /\ "age_str" \in DOMAIN probeOut
    /\ probe.age_seconds = 3600
    /\ probeOut.age_str = "1 hour(s) old"

\* An entry one second short of 60 minutes, labelled in minutes
AlmostAnHour ==
    /\ "age_str" \in DOMAIN probeOut
    /\ probe.age_seconds = 3599
    /\ probeOut.age_str = "59 minute(s) old"

----------------------------------------------------------------------------
(* The layer as a whole: retries, tracking with pruning and alerts, fallback,
   and the cache with clear, on one set of files *)

MaxAuditCalls == 2

\* Minutes between the operations of the layer: two steps leave the window,
\* three steps the cooldown
AuditTickStep == 4

AuditTool == "mcp__nsip__nsip_get_animal"

AuditTick ==
    /\ rpc = "idle"
    /\ now + AuditTickStep <= MaxTrackTime
    /\ now' = now + AuditTickStep
    /\ UNCHANGED <<storeVars, trackVars, retryVars, probeVars, sysVars>>

\* auto_retry.py on a failure or a success, while fewer than MaxAuditCalls
\* calls have logged
AuditRetry ==
    \/ /\ Len(retry_log) < MaxAuditCalls * RecordsPerCall
       /\ \E r \in {R_flagged, R_ok} : RetryBegin(AuditTool, P_id, r)
    \/ RetryAttempt
    \/ RetryExhausted

\* The part of the layer that runs beside the Retry Coordinator in a behaviour
AuditBeside(part) == probe = [fn |-> "audit", beside |-> part]

NextAudit ==
    \/ AuditTick
    \/ AuditRetry
    \/ AuditBeside("tracker") /\ ErrorNotifierMain(AuditTool, R_flagged)
    \/ AuditBeside("cache") /\ FallbackMain(AuditTool, P_id, R_flagged)
    \/ AuditBeside("cache") /\ ResultCacheMain(AuditTool, P_id, R_ok)
    \/ AuditBeside("cache") /\ ApiClear

InitAudit ==
    /\ now = 0
    /\ InitStore
    /\ InitTrack
    /\ InitRetry
    /\ InitSys
    /\ probe \in {[fn |-> "audit", beside |-> part] : part \in {"tracker", "cache"}}
    /\ probeOut = [k \in {} |-> None]

SpecAudit == InitAudit /\ [][NextAudit]_vars

IsPrefix(s, t) == Len(s) <= Len(t) /\ SubSeq(t, 1, Len(s)) = s

\* A step in which the Retry Coordinator takes up a failure verdict appends a
\* record of the failure: time, operation, reason
FailureRecorded ==
    (rpc = "idle" /\ rpc' = "attempt") =>
        /\ Len(retry_log') = Len(retry_log) + 1
        /\ LET rec == retry_log'[Len(retry_log')]
           IN  /\ rec.status = "initial_failure"
               /\ rec.timestamp = IsoZ(now)
               /\ rec.tool = rcall'.tool
               /\ rec.failure_reason = AutoRetry_is_failure(rcall'.result)[2]

\* C25: every failure verdict the layer processes has a FailureRecord
\* (timestamp, operation, reason) appended to the audit log, and no operation
\* of the layer, cache clear, window pruning and alerting included, changes or
\* removes an earlier record: the log before a step is a prefix of the log
\* after it.
C25_AppendOnlyAudit ==
    [][/\ FailureRecorded
       /\ IsPrefix(retry_log, retry_log')
       /\ IsPrefix(fallback_log, fallback_log')]_vars

\* The audit log of one handled failure is whole after the tracker has pruned
\* its list and raised an Alert
C25_Witness ==
    /\ Len(retry_log) = RecordsPerCall
    /\ retry_log[1].status = "initial_failure"
    /\ retry_log[1].timestamp = IsoZ(0)
    /\ DOMAIN alerts # {}
    /\ trackOut.op = "error_notifier"
    /\ trackOut.at > 0
    /\ Len(tracker.failures) < Len(trackOut.before.failures) + 1

\* The same after a later clear of a cache that held an entry, and a fallback
AuditAfterClear ==
    /\ Len(retry_log) = RecordsPerCall
    /\ retry_log[1].timestamp = IsoZ(0)
    /\ hookOut.op = "clear"
    /\ hookOut.at > 0
    /\ Len(fallback_log) = 1
    /\ lastSet = [i \in {} |-> None]

----------------------------------------------------------------------------
(* Further properties of the Cache Store (SpecStore) *)

\* No set has been made since the last clear (or since the start)
NothingSetSinceClear == lastSet = [i \in {} |-> None]

\* What holds from a clear to the next set
ClearedCache ==
    NothingSetSinceClear =>
        /\ DOMAIN cache = {}
        /\ \A t \in StoreTools, p \in StoreParams :
               ResultCache_get(cache, now, t, p).ret = None
        /\ ResultCache_get_stats(cache).entries = 0
        /\ hookOut.op = "get" => hookOut.ret = None
        /\ hookOut.op = "get_stats" => hookOut.ret.entries = 0

\* C26: after clear() and before any further set, get returns absent for
\* every operation and arguments, and stats reports 0 entries.
C26_ClearEmpties ==
    /\ []ClearedCache
    /\ [][(hookOut'.op = "clear" /\ hookOut' # hookOut) => DOMAIN cache' = {}]_vars

\* A clear of a cache that held two entries
C26_Witness ==
    /\ hookOut.op = "clear"
    /\ Cardinality(hookOut.had) = 2
    /\ DOMAIN cache = {}
    /\ ResultCache_get_stats(cache).entries = 0

----------------------------------------------------------------------------
(* The Retry Coordinator under other configurations *)

MaxConfigRetries == 4
MaxSchedule == 2

\* Backoff values, in seconds
DelayValues == {1, 2, 4}

\* Schedules of up to MaxSchedule delays
Schedules == UNION {[1..n -> DelayValues] : n \in 0..MaxSchedule}

InitBackoff ==
    /\ now = 0
    /\ InitStore
    /\ InitTrack
    /\ InitRetry
    /\ InitSys
    /\ probe \in {[fn |-> "retry_config", max_retries |-> k, backoff_delays |-> d] :
                     k \in 1..MaxConfigRetries, d \in Schedules}
    /\ probeOut = [k \in {} |-> None]

NextBackoff ==
    \/ RetryBegin("mcp__nsip__nsip_get_animal", P_id, R_flagged)
    \/ RetryAttempt
    \/ RetryExhausted

SpecBackoff == InitBackoff /\ [][NextBackoff]_vars

\* schedule[n - 1] for the 1-based attempt n, 0 past the schedule
ScheduledBackoff(n) ==
    IF n <= Len(probe.backoff_delays) THEN probe.backoff_delays[n] ELSE 0

\* The "retrying" record an attempt appends and the wait it makes
AttemptStep ==
    (rpc = "attempt" /\ Len(retry_log') > Len(retry_log)) =>
        LET rec == retry_log'[Len(retry_log) + 1]
            waited == IF Len(sleeps') > Len(sleeps) THEN sleeps'[Len(sleeps')] ELSE 0
        IN  /\ rec.status = "retrying"
            /\ rec.attempt = rcall.attempt
            /\ rec.backoff_seconds = ScheduledBackoff(rec.attempt)
            /\ waited = ScheduledBackoff(rec.attempt)
            /\ rec.backoff_seconds = waited
            /\ Len(sleeps') <= Len(sleeps) + 1

\* C27: for every max_retries and backoff schedule, the 1-based attempt n
\* waits for and records schedule[n - 1] seconds when n <= len(schedule), and
\* waits 0 seconds and records backoff 0 when n > len(schedule); the backoff
\* recorded is the wait applied.
C27_BackoffIndexing ==
    /\ [][AttemptStep]_vars
    /\ [](\A i \in 1..Len(retry_log) :
              retry_log[i].status = "retrying" =>
                  retry_log[i].backoff_seconds = ScheduledBackoff(retry_log[i].attempt))

\* Four attempts on a schedule of two delays: the waits are those two, and
\* attempts 3 and 4 are recorded with backoff 0
C27_Witness ==
    /\ Reconfigured
    /\ probe.max_retries = 4
    /\ probe.backoff_delays = <<2, 4>>
    /\ retryOut.op = "auto_retry"
    /\ retryOut.out.metadata.retry_count = 4
    /\ sleeps = <<2, 4>>
    /\ Len(retry_log) = 6
    /\ <<retry_log[2].backoff_seconds, retry_log[3].backoff_seconds,
         retry_log[4].backoff_seconds, retry_log[5].backoff_seconds>> = <<2, 4, 0, 0>>

----------------------------------------------------------------------------
(* Further properties of the Failure Tracker (SpecTrack) *)

\* The records of a list that are not older than the window at time t: their
\* timestamp is not before t - window
InWindow(t, failures) ==
    LET NotOlder(failure) == FromIsoZ(failure.timestamp) >= t - WindowMinutes
    IN  SelectSeq(failures, NotOlder)

\* The records of a list that are less than one window old at time t
NewerThanWindow(t, failures) ==
    LET Newer(failure) == FromIsoZ(failure.timestamp) > t - WindowMinutes
    IN  SelectSeq(failures, Newer)

\* The record the last invocation added
TrackedRecord ==
    [timestamp |-> IsoZ(trackOut.at), tool |-> trackOut.tool,
     error_reason |-> DictGet(trackOut.result, "error", "Unknown error")]

\* C28: in a sequential series of failure verdicts, the recent_failure_count
\* track_and_notify returns is the number of failures, the current one
\* included, whose timestamp is inside the trailing 5-minute window (not older
\* than now - 5 minutes), and the saved list holds exactly those records in
\* arrival order: no record inside the window is dropped.
C28_SequentialCount ==
    TrackedFailure =>
        LET due == InWindow(trackOut.at, Append(trackOut.before.failures, TrackedRecord))
        IN  /\ trackOut.out.metadata.recent_failure_count = Len(due)
            /\ tracker.failures = due

\* What the code keeps: the records less than 5 minutes old, in arrival order
StrictWindowCount ==
    TrackedFailure =>
        LET kept == NewerThanWindow(trackOut.at,
                                    Append(trackOut.before.failures, TrackedRecord))
        IN  /\ trackOut.out.metadata.recent_failure_count = Len(kept)
            /\ tracker.failures = kept

\* A failure exactly 5 minutes after the one before it, counted alone
BoundaryRecordDropped ==
    /\ TrackedFailure
    /\ Len(trackOut.before.failures) = 1
    /\ trackOut.at - FromIsoZ(trackOut.before.failures[1].timestamp) = WindowMinutes
    /\ trackOut.out.metadata.recent_failure_count = 1
    /\ Len(tracker.failures) = 1

----------------------------------------------------------------------------
(* The three hooks that handle only NSIP tools, each on its own files *)

\* Tool names outside the handled set; the last holds the prefix, but not at
\* its start
OtherTools == {"Read", "other_tool", "x_mcp__nsip__nsip_get_animal"}

GateInputs ==
    {<<"mcp__nsip__nsip_get_animal", P_id, R_flagged>>,
     <<"mcp__nsip__nsip_get_animal", P_id, R_ok>>}
        \cup {<<t, P_id, r>> : t \in OtherTools, r \in {R_flagged, R_ok}}

\* The hook that runs in a behaviour
GateIs(hook) == probe = [fn |-> "gate", hook |-> hook]

InitGate ==
    /\ now = 0
    /\ InitStore
    /\ InitTrack
    /\ InitRetry
    /\ InitSys
    /\ probe \in {[fn |-> "gate", hook |-> h] :
                     h \in {"auto_retry", "error_notifier", "fallback_cache"}}
    /\ probeOut = [k \in {} |-> None]

NextGate ==
    \/ GateIs("auto_retry") /\ \E in \in GateInputs : RetryBegin(in[1], in[2], in[3])
    \/ RetryAttempt
    \/ RetryExhausted
    \/ GateIs("error_notifier") /\ \E in \in GateInputs : ErrorNotifierMain(in[1], in[3])
    \/ GateIs("error_notifier") /\ \E d \in TrackTickSteps : TrackTick(d)
    \/ GateIs("fallback_cache") /\ \E in \in GateInputs : FallbackMain(in[1], in[2], in[3])
    \/ GateIs("fallback_cache") /\ \E in \in GateInputs : ResultCacheMain(in[1], in[2], in[3])
    \/ GateIs("fallback_cache") /\ \E d \in TickSteps : StoreTick(d)

SpecGate == InitGate /\ [][NextGate]_vars

\* The files of the three hooks, and the cache
GatedFiles == <<retry_log, sleeps, fallback_log, tracker, alerts, cache>>

\* auto_retry ends in the step, on a tool outside the handled set
RetrySkips ==
    /\ rpc = "idle"
    /\ rpc' = "idle"
    /\ retryOut'.op = "auto_retry"
    /\ retryOut'.tool \in OtherTools

\* error_notifier runs in the step, on a tool outside the handled set
TrackerSkips ==
    /\ GateIs("error_notifier")
    /\ now' = now
    /\ trackOut'.op = "error_notifier"
    /\ trackOut'.tool \in OtherTools

\* fallback_cache runs in the step, on a tool outside the handled set
FallbackSkips ==
    /\ GateIs("fallback_cache")
    /\ now' = now
    /\ hookOut'.op = "fallback_cache"
    /\ hookOut'.tool \in OtherTools

NotHandled(flag) ==
    [continue |-> TRUE, metadata |-> (flag :> FALSE) @@ [reason |-> "Not an NSIP tool"]]

\* C29: for a tool name that does not start with "mcp__nsip__", auto_retry,
\* error_notifier and fallback_cache each report that nothing was handled
\* (retry_handled, error_tracked, fallback_checked false) with continue true
\* and exit status 0, for a failure as for a success, and leave the retry log,
\* the fallback log, the tracker state and the alert files as they were.
C29_HandledToolGating ==
    [][/\ RetrySkips =>
              /\ retryOut'.out = NotHandled("retry_handled")
              /\ retryOut'.exit = 0
              /\ UNCHANGED GatedFiles
       /\ TrackerSkips =>
              /\ trackOut'.out = NotHandled("error_tracked")
              /\ trackOut'.exit = 0
              /\ UNCHANGED GatedFiles
       /\ FallbackSkips =>
              /\ hookOut'.out = NotHandled("fallback_checked")
              /\ hookOut'.exit = 0
              /\ UNCHANGED GatedFiles]_vars

\* auto_retry skipped a failure of a tool that only contains the prefix, with
\* the log of an earlier handled failure in place
C29_Witness ==
    /\ GateIs("auto_retry")
    /\ retryOut.op = "auto_retry"
    /\ retryOut.tool = "x_mcp__nsip__nsip_get_animal"
    /\ retryOut.result = R_flagged
    /\ retryOut.out = NotHandled("retry_handled")
    /\ Len(retry_log) = RecordsPerCall

\* error_notifier skipped a failure with two failures on record
TrackerSkipped ==
    /\ GateIs("error_notifier")
    /\ trackOut.op = "error_notifier"
    /\ trackOut.tool = "Read"
    /\ trackOut.result = R_flagged
    /\ trackOut.out = NotHandled("error_tracked")
    /\ Len(tracker.failures) = 2

\* fallback_cache skipped a failure with a cached entry and a log record in
\* place
FallbackSkipped ==
    /\ GateIs("fallback_cache")
    /\ hookOut.op = "fallback_cache"
    /\ hookOut.tool = "other_tool"
    /\ hookOut.result = R_flagged
    /\ hookOut.out = NotHandled("fallback_checked")
    /\ Len(fallback_log) = 1
    /\ DOMAIN cache # {}


\* The files of the fingerprints set since the last clear
SetSinceClear == {PathOf(id[1], CHOOSE p \in StoreParams : Content(p) = id[2]) :
                     id \in DOMAIN lastSet}

\* The entries of the directory that are expired at time t
ExpiredEntries(t) == {p \in DOMAIN cache : Expired(t, FromIsoZ(cache[p].cached_at))}

\* What each operation of the store does to the set of entries present
EntriesByOperation ==
    /\ (hookOut' # hookOut /\ hookOut'.op = "set") =>
           DOMAIN cache' = DOMAIN cache \cup {PathOf(hookOut'.tool, hookOut'.parameters)}
    /\ (hookOut' # hookOut /\ hookOut'.op = "get") =>
           LET own == PathOf(hookOut'.tool, hookOut'.parameters)
           IN  /\ DOMAIN cache' = DOMAIN cache \ ({own} \cap ExpiredEntries(now))
               /\ \A p \in DOMAIN cache' : cache'[p] = cache[p]
    /\ (hookOut' # hookOut /\ hookOut'.op = "get_stats") =>
           /\ cache' = cache
           /\ hookOut'.ret.entries = Cardinality(DOMAIN cache)
    /\ (hookOut' # hookOut /\ hookOut'.op = "clear") => DOMAIN cache' = {}
    /\ hookOut' = hookOut => cache' = cache

\* C30: the entry count of stats is the number of entries present, which are
\* the fingerprints set and since neither cleared nor purged by a get on that
\* fingerprint; an expired entry stays counted until a get on its own
\* fingerprint or a clear, and set, stats and get on other fingerprints never
\* remove it.
C30_LazyPurge ==
    /\ [][EntriesByOperation]_vars
    /\ [](/\ DOMAIN cache \subseteq SetSinceClear
          /\ hookOut.op = "get_stats" => hookOut.ret.entries = Cardinality(DOMAIN cache))

\* Stats counting two entries of which one is expired
C30_Witness ==
    /\ hookOut.op = "get_stats"
    /\ hookOut.ret.entries = 2
    /\ Cardinality(ExpiredEntries(now)) = 1

\* A get on another fingerprint that left an expired entry where it was
ExpiredLeftByOtherGet ==
    /\ hookOut.op = "get"
    /\ ExpiredEntries(now) # {}
    /\ PathOf(hookOut.tool, hookOut.parameters) \notin ExpiredEntries(now)
    /\ hookOut.ret # None


----------------------------------------------------------------------------
(* C31: entries are independent per fingerprint *)

\* The file of the call that the step just taken was made for
OwnPath == PathOf(hookOut'.tool, hookOut'.parameters)

\* A set or a get leaves every file but its own as it was: present or absent
\* as before, with the same payload and the same cached_at
OtherEntriesKept ==
    (hookOut' # hookOut /\ hookOut'.op \in {"set", "get"}) =>
        \A p \in (DOMAIN cache \cup DOMAIN cache') \ {OwnPath} :
            /\ p \in DOMAIN cache
            /\ p \in DOMAIN cache'
            /\ cache'[p].result = cache[p].result
            /\ cache'[p].cached_at = cache[p].cached_at
            /\ cache'[p] = cache[p]

\* What a get returns was stored for the same operation and the same
\* arguments: it is the payload of the last set of that pair
ReadsOwnPayload ==
    (hookOut.op = "get" /\ hookOut.ret # None) =>
        /\ hookOut.had # None
        /\ hookOut.had[1].tool = hookOut.tool
        /\ Content(hookOut.had[1].parameters) = Content(hookOut.parameters)
        /\ Ident(hookOut.tool, hookOut.parameters) \in DOMAIN lastSet
        /\ hookOut.ret = Some(lastSet[Ident(hookOut.tool, hookOut.parameters)].result)

\* C31: set(op, args, p) and get(op, args), its delete on expiry included,
\* change at most the entry of fingerprint(op, args); every entry stored under
\* another (operation, arguments) pair keeps its payload and its cached_at, and
\* a get returns only a payload that was set for its own pair.
C31_FingerprintIsolation ==
    /\ [][OtherEntriesKept]_vars
    /\ []ReadsOwnPayload

\* A set for one pair made while the entry of another pair, stored earlier
\* with another payload, is in place and stays as it was
C31_Witness ==
    /\ hookOut.op = "set"
    /\ hookOut.parameters = P_ab
    /\ hookOut.at = now
    /\ PathOf(hookOut.tool, P_id) \in DOMAIN cache
    /\ cache[PathOf(hookOut.tool, P_id)].cached_at # IsoZ(now)
    /\ cache[PathOf(hookOut.tool, P_id)].result # hookOut.result
    /\ cache[PathOf(hookOut.tool, P_id)].result =
           lastSet[Ident(hookOut.tool, P_id)].result

\* A get that removed its own expired entry and left the entry of another pair
PurgedOwnOnly ==
    /\ hookOut.op = "get"
    /\ hookOut.had # None
    /\ hookOut.ret = None
    /\ PathOf(hookOut.tool, hookOut.parameters) \notin DOMAIN cache
    /\ DOMAIN cache # {}


----------------------------------------------------------------------------
(* C32: the Cache Store and the Fallback Supplier name an entry alike *)

\* The failed calls the Fallback Supplier is asked about
IdentityResults == {R_flagged}

\* The fallback hook has not been asked yet.  It leaves the cache directory
\* as it finds it, so the store's operations are taken before it is asked.
NotAskedYet == fallback_log = <<>>

\* The store's API and the fallback hook on one cache directory
NextIdentity ==
    \/ \E d \in TickSteps : NotAskedYet /\ StoreTick(d)
    \/ \E t \in StoreTools, p \in StoreParams, r \in StoreResults :
           NotAskedYet /\ ApiSet(t, p, r)
    \/ \E t \in StoreTools, p \in StoreParams : NotAskedYet /\ ApiGet(t, p)
    \/ NotAskedYet /\ ApiClear
    \/ \E t \in StoreTools, p \in StoreParams, r \in IdentityResults : FallbackMain(t, p, r)

SpecIdentity == Init /\ [][NextIdentity]_vars

\* Both components compute the same fingerprint and the same entry path
SameIdentity(tool_name, parameters) ==
    /\ Fallback_get_cache_key(tool_name, parameters) =
           ResultCache_get_cache_key(tool_name, parameters)
    /\ Fallback_get_cache_path(Fallback_get_cache_key(tool_name, parameters)) =
           ResultCache_get_cache_path(ResultCache_get_cache_key(tool_name, parameters))

\* The fallback hook was asked about a failed call of a handled tool
FallbackAsked ==
    /\ hookOut.op = "fallback_cache"
    /\ StartsWith(hookOut.tool, NsipPrefix)
    /\ ClassifiesAsFailure(hookOut.result)

\* C32: for every (operation, arguments) the fingerprint and the entry path of
\* the Fallback Supplier are those of the Cache Store, and a fallback lookup
\* finds an entry exactly when the store's file of that pair is present; what
\* it finds is that file's payload and cached_at.
C32_SameIdentity ==
    /\ \A t \in StoreTools, p \in StoreParams : SameIdentity(t, p)
    /\ FallbackAsked =>
           /\ SameIdentity(hookOut.tool, hookOut.parameters)
           /\ hookOut.out.metadata.fallback_used <=>
                  PathOf(hookOut.tool, hookOut.parameters) \in DOMAIN cache
           /\ hookOut.out.metadata.fallback_used =>
                  /\ hookOut.out.metadata.cached_result =
                         cache[PathOf(hookOut.tool, hookOut.parameters)].result
                  /\ hookOut.out.metadata.cached_at =
                         cache[PathOf(hookOut.tool, hookOut.parameters)].cached_at

\* A fallback asked with the arguments in one order found the entry the store
\* wrote for them in the other order, with another pair's entry beside it
C32_Witness ==
    /\ FallbackAsked
    /\ hookOut.parameters = P_ba
    /\ hookOut.out.metadata.fallback_used
    /\ cache[PathOf(hookOut.tool, P_ba)].parameters = P_ab
    /\ PathOf(hookOut.tool, P_id) \in DOMAIN cache

\* A fallback that found nothing for its pair while the store held the entry
\* of another pair
FallbackMissBesideEntry ==
    /\ FallbackAsked
    /\ ~hookOut.out.metadata.fallback_used
    /\ PathOf(hookOut.tool, hookOut.parameters) \notin DOMAIN cache
    /\ DOMAIN cache # {}


----------------------------------------------------------------------------
(* C33: what starts the cooldown *)

\* The log directory takes new alert files, or open(alert_file, "w") raises
AlertDirStates == {{}, {"alert_write"}}

\* error_notifier.main, one invocation at a time, on a log directory that
\* may refuse the alert file
NextCooldown ==
    \/ \E d \in TrackTickSteps : TrackTick(d)
    \/ \E f \in AlertDirStates : SetFaults(f)
    \/ \E in \in TrackInputs : ErrorNotifierMain(in[1], in[2])

SpecCooldown == Init /\ [][NextCooldown]_vars

\* The last invocation reported an alert with the path of its file
ReportedAlert ==
    /\ trackOut.out.metadata.alert_created
    /\ trackOut.out.metadata.alert_path # None
    /\ trackOut.out.metadata.alert_path # Some("")

\* C33 as claimed: an invocation of track_and_notify changes last_alert if and
\* only if it reports alert_created = true with a non-empty alert_path; when
\* the alert file cannot be written, last_alert stays as it was.
C33_CooldownOnlyOnAlert ==
    TrackedFailure =>
        (tracker.last_alert # trackOut.before.last_alert <=> ReportedAlert)

\* What the code does: last_alert is set to the time of the invocation exactly
\* when the threshold is reached outside the cooldown, whether or not the
\* alert file was written
CooldownOnDecision ==
    TrackedFailure =>
        LET due == /\ trackOut.out.metadata.recent_failure_count >= FailureThreshold
                   /\ ~InCooldown(trackOut.at, trackOut.before.last_alert)
        IN  /\ due => tracker.last_alert = Some(IsoZ(trackOut.at))
            /\ ~due => tracker.last_alert = trackOut.before.last_alert
            /\ ReportedAlert => due

\* The threshold was reached while the alert file could not be written: no
\* alert is reported, no file exists, and the cooldown has started
CooldownWithoutAlert ==
    /\ TrackedFailure
    /\ trackOut.out.metadata.recent_failure_count >= FailureThreshold
    /\ ~trackOut.out.metadata.alert_created
    /\ trackOut.out.metadata.alert_path = Some("")
    /\ trackOut.before.last_alert = None
    /\ tracker.last_alert = Some(IsoZ(trackOut.at))
    /\ DOMAIN alerts = {}

\* A later failure over the threshold, with the log directory writable again,
\* raised no alert because of a cooldown no alert had started
AlertLostToCooldown ==
    /\ TrackedFailure
    /\ faults = {}
    /\ trackOut.out.metadata.recent_failure_count >= FailureThreshold
    /\ ~trackOut.out.metadata.alert_created
    /\ trackOut.before.last_alert # None
    /\ trackOut.at > trackOut.before.last_alert[1][1]
    /\ DOMAIN alerts = {}


----------------------------------------------------------------------------
(* C34: alerts of invocations that run at the same time *)

\* The failure every invocation is given
DedupInputs == {<<"mcp__nsip__nsip_get_animal", R_flagged>>}

\* The next hook process started: it runs up to _load_error_tracker
DedupLoad(tool_name, result) ==
    /\ Cardinality(DOMAIN procs) < MaxNotifiers
    /\ NotifierLoad(Cardinality(DOMAIN procs) + 1, tool_name, result)

\* Invocations that run alone, then invocations that load the state file and
\* save it later, with the clock moving in between
NextDedup ==
    \/ \E d \in TrackTickSteps : TrackTick(d)
    \/ \E in \in DedupInputs : DOMAIN procs = {} /\ ErrorNotifierMain(in[1], in[2])
    \/ \E in \in DedupInputs : DedupLoad(in[1], in[2])
    \/ \E p \in Notifiers : NotifierSave(p)

SpecDedup == Init /\ [][NextDedup]_vars

\* C34 as claimed: whatever the interleaving of the track_and_notify
\* invocations on the shared state file, no two Alerts are emitted less than
\* the cooldown of 10 minutes apart.
C34_DedupUnderConcurrency ==
    \A a, b \in DOMAIN alerts :
        a # b => \/ alerts[a].alert_time - alerts[b].alert_time >= CooldownMinutes
                 \/ alerts[b].alert_time - alerts[a].alert_time >= CooldownMinutes

\* Two invocations that both loaded the state before either saved it, each of
\* which reported an alert of its own, with both alert files in place
TwoAlertsInCooldown ==
    \E p, q \in DOMAIN procs :
        /\ Overlapped(p, q)
        /\ procs[p].out.metadata.alert_created
        /\ procs[q].out.metadata.alert_created
        /\ procs[p].out.metadata.alert_path # procs[q].out.metadata.alert_path
        /\ procs[p].out.metadata.alert_path[1] \in DOMAIN alerts
        /\ procs[q].out.metadata.alert_path[1] \in DOMAIN alerts

\* Invocations that run one after the other keep their alerts a cooldown
\* apart: without two invocations under way at once the claim holds
ApartWhenAlone ==
    (\A p, q \in DOMAIN procs : ~Overlapped(p, q)) => C34_DedupUnderConcurrency


----------------------------------------------------------------------------
(* C35: a get that purges while a set writes the same file *)

MaxGetters == 2

\* What was last set for a call, if anything
LastSetOf(tool_name, parameters) ==
    IF Ident(tool_name, parameters) \in DOMAIN lastSet
    THEN Some(lastSet[Ident(tool_name, parameters)])
    ELSE None

\* ResultCache.get, by the next process started, up to the expiry test: the
\* file is looked for, opened and parsed and its age compared with the ttl.
\* A miss and a hit end the call here; for an expired entry the unlink is
\* still to come.
GetRead(tool_name, parameters) ==
    LET p == Cardinality(DOMAIN procs) + 1
        cache_path ==
            ResultCache_get_cache_path(ResultCache_get_cache_key(tool_name, parameters))
        found == cache_path \in DOMAIN cache /\ ~LoadRaises(cache[cache_path])
        expired == found /\ Expired(now, FromIsoZ(cache[cache_path].cached_at))
    IN  /\ p <= MaxGetters
        /\ procs' = (p :> [pc |-> IF expired THEN "expired" ELSE "done",
                           tool |-> tool_name, parameters |-> parameters,
                           at |-> now, cache_path |-> cache_path,
                           set_before |-> LastSetOf(tool_name, parameters),
                           read |-> IF found THEN cache[cache_path] ELSE NoFile,
                           removed |-> NoFile, removed_at |-> now,
                           ret |-> IF found /\ ~expired
                                   THEN Some(cache[cache_path].result) ELSE None])
                        @@ procs
        /\ UNCHANGED <<now, storeVars, trackVars, retryVars, probeVars, faults, query_log>>

\* cache_path.unlink() and return None: whatever file is at the path by now
\* is removed (a missing file raises, which get takes for a miss)
GetUnlink(p) ==
    /\ p \in DOMAIN procs
    /\ procs[p].pc = "expired"
    /\ cache' = Unlink(cache, procs[p].cache_path)
    /\ procs' = [procs EXCEPT ![p].pc = "done",
                              ![p].removed = IF procs[p].cache_path \in DOMAIN cache
                                             THEN cache[procs[p].cache_path] ELSE NoFile,
                              ![p].removed_at = now]
    /\ UNCHANGED <<now, fallback_log, lastSet, hookOut, trackVars, retryVars, probeVars,
                   faults, query_log>>

NextPurge ==
    \/ \E d \in TickSteps : StoreTick(d)
    \/ \E t \in StoreTools, a \in WriteParams, r \in StoreResults : ApiSet(t, a, r)
    \/ \E t \in StoreTools, a \in WriteParams : GetRead(t, a)
    \/ \E p \in 1..MaxGetters : GetUnlink(p)

SpecPurge == Init /\ [][NextPurge]_vars

\* The gets that have returned
GetsDone == {p \in DOMAIN procs : procs[p].pc = "done"}

\* C35 as claimed: for every interleaving of a get and a set on one
\* fingerprint, the entry that a get deletes is expired at the moment it is
\* deleted, and a get made within the ttl of a completed set returns the
\* payload of that set.
C35_PurgeKeepsFresh ==
    \A p \in GetsDone :
        /\ procs[p].removed # NoFile =>
               Expired(procs[p].removed_at, FromIsoZ(procs[p].removed.cached_at))
        /\ (/\ procs[p].set_before # None
            /\ procs[p].at - procs[p].set_before[1].at <= TtlMinutes)
               => procs[p].ret = Some(procs[p].set_before[1].result)

\* A get that read an expired entry and then removed the entry a set had
\* written in the meantime, which was not expired
FreshEntryPurged ==
    \E p \in GetsDone :
        /\ procs[p].removed # NoFile
        /\ procs[p].removed # procs[p].read
        /\ ~Expired(procs[p].removed_at, FromIsoZ(procs[p].removed.cached_at))
        /\ LastSetOf(procs[p].tool, procs[p].parameters) =
               Some([result |-> procs[p].removed.result, at |-> procs[p].removed_at])

\* The next get, made at the time of the completed set, found no file
SetLostToPurge ==
    \E p \in GetsDone :
        /\ procs[p].set_before # None
        /\ procs[p].at = procs[p].set_before[1].at
        /\ procs[p].read = NoFile
        /\ procs[p].ret = None

\* When no set comes between the read and the unlink of a get, what it removes
\* is the expired entry it read
PurgeOfWhatWasRead ==
    \A p \in GetsDone :
        (procs[p].removed # NoFile /\ procs[p].removed = procs[p].read) =>
            Expired(procs[p].removed_at, FromIsoZ(procs[p].removed.cached_at))


----------------------------------------------------------------------------
(* C36: the order of the records of one handle_failure call *)

TerminalStatuses == {"retry_succeeded", "retries_exhausted"}

\* The records the retry log has gained since it held n records
RecordsSince(n) == SubSeq(retry_log, n + 1, Len(retry_log))

\* recs begins with one initial_failure record followed by the "retrying"
\* records of the attempts 1, 2, ..., n in that order
BeginsInOrder(recs, n) ==
    /\ Len(recs) >= n + 1
    /\ recs[1].status = "initial_failure"
    /\ \A k \in 1..n : /\ recs[k + 1].status = "retrying"
                       /\ recs[k + 1].attempt = k

\* The call that has returned: initial failure, attempts 1..max_retries, one
\* terminal record and nothing after it, and retry_count is the number of
\* attempt records
ReturnedInOrder ==
    (HandleFailureReturned /\ ClassifiesAsFailure(retryOut.result)) =>
        LET recs == RecordsSince(retryOut.log_from)
            n == retryOut.out.metadata.retry_count
        IN  /\ n = max_retries
            /\ Len(recs) = n + 2
            /\ BeginsInOrder(recs, n)
            /\ recs[n + 2].status \in TerminalStatuses
            /\ Cardinality({k \in 1..Len(recs) : recs[k].status = "retrying"}) = n
            /\ Cardinality({k \in 1..Len(recs) : recs[k].status \in TerminalStatuses}) = 1

\* The call under way: initial failure and the attempts made so far, no
\* terminal record yet
RunningInOrder ==
    rpc # "idle" =>
        LET recs == RecordsSince(rcall.log_from)
        IN  /\ Len(recs) = rcall.retry_count + 1
            /\ rcall.retry_count = rcall.attempt - 1
            /\ BeginsInOrder(recs, rcall.retry_count)

\* In the whole log a terminal record is followed by nothing or by the
\* initial_failure record of the next call
NothingAfterTerminal ==
    \A i \in 1..Len(retry_log) :
        (retry_log[i].status \in TerminalStatuses /\ i < Len(retry_log)) =>
            retry_log[i + 1].status = "initial_failure"

\* C36: the records handle_failure appends for one failure verdict are, in
\* order, one initial_failure record, the attempt records numbered 1, 2, ...,
\* max_retries, and exactly one terminal record; no attempt record follows
\* the terminal record, and retry_count is the number of attempt records.
C36_RetryLogOrder ==
    /\ ReturnedInOrder
    /\ RunningInOrder
    /\ NothingAfterTerminal

\* The second call on a failure has returned: its five records follow the
\* five of the first call
C36_Witness ==
    /\ HandleFailureReturned
    /\ ClassifiesAsFailure(retryOut.result)
    /\ retryOut.log_from = RecordsPerCall
    /\ Len(retry_log) = 2 * RecordsPerCall
    /\ retry_log[RecordsPerCall].status = "retries_exhausted"
    /\ retry_log[RecordsPerCall + 1].status = "initial_failure"
    /\ retry_log[Len(retry_log) - 1].attempt = max_retries
    /\ retryOut.out.metadata.retry_count = max_retries


----------------------------------------------------------------------------
(* C37: an alert is raised only at the threshold, and is reported with its path *)

\* The text k occurs in the text s
HasText(s, k) == \E i \in 1..(Len(s) - Len(k) + 1) : SubSeq(s, i, i + Len(k) - 1) = k

\* The invocation that has just run reported alert_created = true
AlertReported ==
    /\ trackOut.op = "error_notifier"
    /\ DictGet(trackOut.out.metadata, "alert_created", FALSE)

\* A step that writes an alert file is an invocation that counted at least
\* threshold recent failures and reports that file
AlertWrittenAtThreshold ==
    alerts' # alerts =>
        /\ trackOut'.op = "error_notifier"
        /\ trackOut'.out.metadata.error_tracked
        /\ trackOut'.out.metadata.recent_failure_count >= FailureThreshold
        /\ trackOut'.out.metadata.alert_created
        /\ DOMAIN alerts' = DOMAIN alerts \cup {trackOut'.out.metadata.alert_path[1]}
        /\ alerts'[trackOut'.out.metadata.alert_path[1]].total =
               trackOut'.out.metadata.recent_failure_count

\* The output of an invocation that reports an alert
AlertReportSound ==
    AlertReported =>
        /\ trackOut.out.metadata.error_tracked
        /\ trackOut.out.metadata.recent_failure_count >= FailureThreshold
        /\ trackOut.out.metadata.alert_path # None
        /\ trackOut.out.metadata.alert_path # Some("")
        /\ trackOut.out.metadata.alert_path[1] \in DOMAIN alerts
        /\ "context" \in DOMAIN trackOut.out
        /\ HasText(trackOut.out.context, trackOut.out.metadata.alert_path[1])

\* C37: every alert is written by an invocation whose recent_failure_count is
\* at least the threshold of 3, and every output with alert_created = true has
\* error_tracked = true, a non-empty alert_path and a context message that
\* contains that path.
C37_AlertImpliesThreshold ==
    /\ [][AlertWrittenAtThreshold]_vars
    /\ [](/\ AlertReportSound
          /\ \A a \in DOMAIN alerts : alerts[a].total >= FailureThreshold)

\* An invocation that reported an alert, with its file in place and the path
\* in the context message
C37_Witness ==
    /\ AlertReported
    /\ trackOut.out.metadata.recent_failure_count = FailureThreshold
    /\ trackOut.out.metadata.alert_path = Some(AlertFileOf(trackOut.at))
    /\ AlertFileOf(trackOut.at) \in DOMAIN alerts
    /\ HasText(trackOut.out.context, AlertFileOf(trackOut.at))

\* The threshold reached with the alert file refused: no alert is reported
\* and the output carries no context message
NoReportWithoutFile ==
    /\ TrackedFailure
    /\ trackOut.out.metadata.recent_failure_count >= FailureThreshold
    /\ trackOut.out.metadata.alert_path = Some("")
    /\ ~trackOut.out.metadata.alert_created
    /\ "context" \notin DOMAIN trackOut.out


----------------------------------------------------------------------------
(* C38: a state file that cannot be used, and records that cannot be dated *)

\* Records of a state file: one of a minute ago, one whose timestamp is no
\* date, one without a timestamp
DatedRecord == [timestamp |-> IsoZ(0), tool |-> "mcp__nsip__nsip_get_animal",
                error_reason |-> "boom"]
UndatedRecord == [timestamp |-> BadTime, tool |-> "mcp__nsip__nsip_get_animal",
                  error_reason |-> "boom"]
BareRecord == [tool |-> "mcp__nsip__nsip_get_animal", error_reason |-> "boom"]

\* The state files an invocation may find: none, one that is no JSON text,
\* and well-formed ones whose lists hold records as above
TrackerFiles ==
    {NoFile, Garbled}
        \cup {[failures |-> f, last_alert |-> None] :
                 f \in {<<>>, <<UndatedRecord>>, <<UndatedRecord, BareRecord>>,
                        <<DatedRecord, UndatedRecord>>,
                        <<UndatedRecord, BareRecord, UndatedRecord>>}}

\* Whether the state file can be opened for reading
TrackerReadStates == {{}, {"tracker_read"}}

InitUnreadable ==
    /\ now = 1
    /\ InitStore
    /\ alerts = [p \in {} |-> None]
    /\ trackOut = [op |-> "none"]
    /\ tracker \in TrackerFiles
    /\ InitRetry
    /\ InitProbe
    /\ faults \in TrackerReadStates
    /\ query_log = <<>>
    /\ procs = [p \in {} |-> None]

\* The state file is removed or overwritten with something that is no JSON
\* text between two invocations
TrackerDamaged(file) ==
    /\ file \in {NoFile, Garbled}
    /\ tracker' = file
    /\ UNCHANGED <<now, storeVars, alerts, trackOut, retryVars, probeVars, sysVars>>

\* The failure the invocations are given, and a result that is none
UnreadableInputs ==
    {<<"mcp__nsip__nsip_get_animal", R_flagged>>, <<"mcp__nsip__nsip_get_animal", R_ok>>}

\* The clock moves on by less than one window, up to MaxUnreadableTime
UnreadableTickStep == 4
MaxUnreadableTime == 5

UnreadableTick ==
    /\ now + UnreadableTickStep <= MaxUnreadableTime
    /\ now' = now + UnreadableTickStep
    /\ UNCHANGED <<storeVars, trackVars, retryVars, probeVars, sysVars>>

NextUnreadable ==
    \/ UnreadableTick
    \/ \E f \in TrackerReadStates : SetFaults(f)
    \/ \E file \in {NoFile, Garbled} : TrackerDamaged(file)
    \/ \E in \in UnreadableInputs : ErrorNotifierMain(in[1], in[2])

SpecUnreadable == InitUnreadable /\ [][NextUnreadable]_vars

\* The state file the last invocation found could not be used: it was
\* missing, no JSON text, or not readable
FoundUnusable ==
    \/ trackOut.before = NoFile
    \/ trackOut.before = Garbled
    \/ "tracker_read" \in trackOut.unreadable

\* The records of the state the last invocation loaded whose timestamp
\* parses and is less than one window old
DatedInWindow ==
    IF FoundUnusable THEN 0
    ELSE Cardinality({i \in 1..Len(trackOut.before.failures) :
                         /\ "timestamp" \in DOMAIN trackOut.before.failures[i]
                         /\ trackOut.before.failures[i].timestamp # BadTime
                         /\ trackOut.at - trackOut.before.failures[i].timestamp[1]
                                < WindowMinutes})

\* What the last invocation on a failure reported and saved, as long as the
\* state file it wrote is in place
TrackedFromWhatLoaded ==
    /\ FoundUnusable =>
           /\ trackOut.out.metadata.error_tracked
           /\ trackOut.out.metadata.recent_failure_count = 1
           /\ ~trackOut.out.metadata.alert_created
           /\ trackOut.out.metadata.alert_path = None
           /\ "context" \notin DOMAIN trackOut.out
           /\ tracker = [failures |->
                             <<[timestamp |-> IsoZ(trackOut.at),
                                tool |-> trackOut.tool,
                                error_reason |->
                                    DictGet(trackOut.result, "error", "Unknown error")]>>,
                         last_alert |-> None]
    /\ trackOut.out.metadata.recent_failure_count = DatedInWindow + 1
    /\ Len(tracker.failures) = DatedInWindow + 1
    /\ \A i \in 1..Len(tracker.failures) : TimestampParses(tracker.failures[i])

\* While the state file cannot be used, no step writes an alert file
NoAlertFromUnusable ==
    (tracker \in {NoFile, Garbled} \/ "tracker_read" \in faults) => alerts' = alerts

\* C38: when the tracker state file is missing, unreadable or unparsable,
\* track_and_notify on a failure starts from the empty state: it reports
\* recent_failure_count = 1, raises no alert, and saves a state that holds the
\* current failure alone and no last alert; and records whose timestamp cannot
\* be parsed are dropped by the pruning, not counted.
C38_UnreadableTrackerState ==
    /\ [](TrackedFailure /\ tracker \notin {NoFile, Garbled} => TrackedFromWhatLoaded)
    /\ [][NoAlertFromUnusable]_vars

\* A failure tracked over a state file that is no JSON text: count 1, no
\* alert, and the file now holds the one record
C38_Witness ==
    /\ TrackedFailure
    /\ trackOut.before = Garbled
    /\ trackOut.out.metadata.recent_failure_count = 1
    /\ ~trackOut.out.metadata.alert_created
    /\ DOMAIN alerts = {}
    /\ Len(tracker.failures) = 1
    /\ tracker.last_alert = None

\* A failure tracked over a readable state file that held three records none
\* of which could be dated: all three dropped, count 1, no alert
UndatedDropped ==
    /\ TrackedFailure
    /\ ~FoundUnusable
    /\ Len(trackOut.before.failures) = 3
    /\ trackOut.out.metadata.recent_failure_count = 1
    /\ ~trackOut.out.metadata.alert_created
    /\ Len(tracker.failures) = 1

\* A failure tracked over a state file that exists and holds records but
\* cannot be opened
UnreadableIsEmpty ==
    /\ TrackedFailure
    /\ "tracker_read" \in trackOut.unreadable
    /\ trackOut.before \notin {NoFile, Garbled}
    /\ Len(trackOut.before.failures) = 2
    /\ trackOut.out.metadata.recent_failure_count = 1
    /\ Len(tracker.failures) = 1

====
